---- MODULE Spec2Model ----
(***************************************************************************)
(* Model of the generation pipeline of aus (src/aus/pipeline):             *)
(* the model router, the phase orchestrator (batch run and streaming       *)
(* stream_run), the incremental file extraction of the streaming phases,   *)
(* the structural validator and the ITERATE merge.                         *)
(*                                                                         *)
(* Text is a sequence of atoms.  An atom is a Python substring that a      *)
(* provider fragment never splits; its length is the substring's length.   *)
(***************************************************************************)
EXTENDS Integers, Sequences, FiniteSets, TLC

\* ------------------------------------------------------------------ bounds
\* Blocks (file blocks, blank lines) the providers return in one run, over
\* all GENERATE / ITERATE attempts together.
MaxBlocks == 2
\* Prompt tokens a provider reports for one call (tokens_in).
PromptTokens == 1
MaxExisting == 3
MaxChanged == 2
MaxFiles == 2
\* select_model calls made on one credential set in RouterSpec
MaxSelects == 2
MaxIterations == 2

\* ------------------------------------------------------------------- atoms
FILE_MARK == "### FILE: "
NL == "\n"
APP_TSX == "frontend/src/App.tsx"
MAIN_PY == "backend/app/main.py"
CODE == "app = make_app()"
TODO_JS == "// TODO"
TODO_PY == "# TODO"
DOTS == "..."

GEMINI_FLASH == "gemini-3-flash-preview"
GEMINI_PRO == "gemini-3-pro-preview"
CLAUDE_HAIKU == "claude-haiku-4-5-20251001"
CLAUDE_SONNET == "claude-sonnet-4-6"

REACT_FASTAPI == "react-fastapi"
REACT_ONLY == "react-only"
FASTAPI_ONLY == "fastapi-only"
Stacks == {REACT_FASTAPI, REACT_ONLY, FASTAPI_ONLY}

ANALYZE == "ANALYZE"
SPEC == "SPEC"
PLAN == "PLAN"
GENERATE == "GENERATE"
VALIDATE == "VALIDATE"
ITERATE == "ITERATE"

NoSpec == [none |-> "spec"]
NoProject == [none |-> "project"]
NoResult == [none |-> "result"]
NoAnalysis == [none |-> "analysis"]
NoResponse == [none |-> "response"]

\* ------------------------------------------------------------- text helpers
IsSpace(a) == a = NL

\* str.strip() on a sequence of atoms
RECURSIVE LStrip(_)
LStrip(s) == IF s # <<>> /\ IsSpace(Head(s)) THEN LStrip(Tail(s)) ELSE s

RECURSIVE RStrip(_)
RStrip(s) ==
    IF s # <<>> /\ IsSpace(s[Len(s)]) THEN RStrip(SubSeq(s, 1, Len(s) - 1)) ELSE s

Strip(s) == RStrip(LStrip(s))

\* len() of a text: the characters of its atoms
RECURSIVE CharLen(_)
CharLen(s) == IF s = <<>> THEN 0 ELSE Len(Head(s)) + CharLen(Tail(s))

\* smallest index j >= i with s[j] = a, or 0
RECURSIVE IndexFrom(_, _, _)
IndexFrom(s, i, a) ==
    IF i > Len(s) THEN 0
    ELSE IF s[i] = a THEN i
    ELSE IndexFrom(s, i + 1, a)

Contains(s, a) == IndexFrom(s, 1, a) # 0

\* ------------------------------------------------------ aus.generators.parser
\* FILE_PATTERN.finditer(buf): a path declaration (marker, path, newline)
\* and the body through to the next marker or the end of the buffer.
RECURSIVE MatchesFrom(_, _)
MatchesFrom(buf, i) ==
    LET s == IndexFrom(buf, i, FILE_MARK) IN
    IF s = 0 THEN <<>>
    ELSE LET n == IndexFrom(buf, s + 1, NL) IN
         IF n = 0 THEN <<>>
         ELSE IF n = s + 1 THEN MatchesFrom(buf, s + 1)
         ELSE LET m == IndexFrom(buf, n + 1, FILE_MARK)
                  e == IF m = 0 THEN Len(buf) ELSE m - 1
              IN  << [group1 |-> SubSeq(buf, s + 1, n - 1),
                      group2 |-> SubSeq(buf, n + 1, e),
                      start |-> s,
                      stop |-> e] >> \o MatchesFrom(buf, e + 1)

FILE_PATTERN(buf) == MatchesFrom(buf, 1)

_clean_content(body) == Strip(body)

_infer_language(path) ==
    IF path = <<APP_TSX>> THEN "tsx"
    ELSE IF path = <<MAIN_PY>> THEN "py"
    ELSE "text"

ProjectFile(path, content) == [path |-> path, content |-> content]

parse_files_from_response(text) ==
    LET ms == FILE_PATTERN(text) IN
    [i \in 1..Len(ms) |-> ProjectFile(Strip(ms[i].group1), _clean_content(ms[i].group2))]

\* a manifest block of a response, one name/version pair each
FRONTEND_MANIFEST == "### FRONTEND_DEPS: react 18"
BACKEND_MANIFEST == "### BACKEND_DEPS: fastapi 0.110"
DEP_REACT == [name |-> "react", version |-> "18"]
DEP_FASTAPI == [name |-> "fastapi", version |-> "0.110"]

\* the front-end and back-end entries the manifest blocks of text list, in
\* order; a text without manifest blocks gives two empty collections
parse_deps_from_response(text) ==
    LET f == SelectSeq(text, LAMBDA a : a = FRONTEND_MANIFEST)
        b == SelectSeq(text, LAMBDA a : a = BACKEND_MANIFEST)
    IN  [frontend |-> [i \in 1..Len(f) |-> DEP_REACT],
         backend |-> [i \in 1..Len(b) |-> DEP_FASTAPI]]

\* ------------------------------------------------------------ model router
PHASE_MODELS(phase) ==
    CASE phase = ANALYZE  -> << <<"gemini", GEMINI_FLASH>>, <<"claude", CLAUDE_HAIKU>> >>
      [] phase = SPEC     -> << >>
      [] phase = PLAN     -> << <<"claude", CLAUDE_SONNET>>, <<"gemini", GEMINI_PRO>> >>
      [] phase = GENERATE -> << <<"claude", CLAUDE_SONNET>>, <<"gemini", GEMINI_FLASH>> >>
      [] phase = VALIDATE -> << >>
      [] phase = ITERATE  -> << <<"gemini", GEMINI_PRO>>, <<"claude", CLAUDE_SONNET>> >>

\* mutant: the first preference is taken whether or not its provider has a key
RECURSIVE FirstUsable_AnyKey(_, _, _)
FirstUsable_AnyKey(prefs, gkey, akey) ==
    IF prefs = <<>> THEN "" ELSE Head(prefs)[2]

RECURSIVE FirstUsable(_, _, _)
FirstUsable(prefs, gkey, akey) ==
    IF prefs = <<>> THEN ""
    ELSE IF Head(prefs)[1] = "gemini" /\ gkey THEN Head(prefs)[2]
    ELSE IF Head(prefs)[1] = "claude" /\ akey THEN Head(prefs)[2]
    ELSE FirstUsable(Tail(prefs), gkey, akey)

\* mutant: the fallback ignores which key is present
select_model_FixedDefault(phase, gkey, akey) ==
    LET m == FirstUsable(PHASE_MODELS(phase), gkey, akey) IN
    IF m # "" THEN m ELSE GEMINI_FLASH

select_model(phase, gkey, akey) ==
    LET m == FirstUsable(PHASE_MODELS(phase), gkey, akey) IN
    IF m # "" THEN m
    ELSE IF gkey THEN GEMINI_FLASH
    ELSE IF akey THEN CLAUDE_SONNET
    ELSE GEMINI_FLASH

\* ---------------------------------------------------------------- validator
get_file(project, path) == \E i \in 1..Len(project.files) : project.files[i].path = path

\* number of lines of content whose strip() is "..."
RECURSIVE DotLines(_)
DotLines(content) ==
    IF content = <<>> THEN 0
    ELSE LET n == IndexFrom(content, 1, NL)
             line == IF n = 0 THEN content ELSE SubSeq(content, 1, n - 1)
             rest == IF n = 0 THEN <<>> ELSE SubSeq(content, n + 1, Len(content))
         IN  (IF line = <<DOTS>> THEN 1 ELSE 0) + DotLines(rest)

\* mutant: the ellipsis check leaves Python files alone
PlaceholderErrors_TypedOnly(f) ==
    (IF Contains(f.content, TODO_JS) \/ Contains(f.content, TODO_PY)
        THEN << <<"Placeholder found in", f.path>> >> ELSE <<>>)
    \o (IF /\ Contains(f.content, DOTS)
           /\ _infer_language(f.path) \in {"tsx", "ts"}
           /\ DotLines(f.content) > 2
        THEN << <<"Suspected placeholder '...' in", f.path>> >> ELSE <<>>)

\* the placeholder checks of _validate on one file (lines 445-457)
PlaceholderErrors(f) ==
    (IF Contains(f.content, TODO_JS) \/ Contains(f.content, TODO_PY)
        THEN << <<"Placeholder found in", f.path>> >> ELSE <<>>)
    \o (IF /\ Contains(f.content, DOTS)
           /\ _infer_language(f.path) \in {"tsx", "ts", "py"}
           /\ DotLines(f.content) > 2
        THEN << <<"Suspected placeholder '...' in", f.path>> >> ELSE <<>>)

MinContentLen == 10

\* mutant: the comparison is made two characters too high
EmptyFileErrors_Higher(f) ==
    IF CharLen(Strip(f.content)) < MinContentLen + 2
        THEN << <<"Nearly empty file:", f.path>> >> ELSE <<>>

EmptyFileErrors(f) ==
    IF CharLen(Strip(f.content)) < MinContentLen
        THEN << <<"Nearly empty file:", f.path>> >> ELSE <<>>

\* the loops over project.files (lines 446-457 and 460-462)
RECURSIVE AllPlaceholderErrors(_)
AllPlaceholderErrors(files) ==
    IF files = <<>> THEN <<>>
    ELSE PlaceholderErrors(Head(files)) \o AllPlaceholderErrors(Tail(files))

RECURSIVE AllEmptyFileErrors(_)
AllEmptyFileErrors(files) ==
    IF files = <<>> THEN <<>>
    ELSE EmptyFileErrors(Head(files)) \o AllEmptyFileErrors(Tail(files))

\* mutant: the check for an empty file list is left out
ValidationErrors_NoCount(project, stack) ==
    (IF stack \in {REACT_FASTAPI, REACT_ONLY} /\ ~get_file(project, <<APP_TSX>>)
        THEN << <<"Missing frontend entry point:", <<APP_TSX>> >> >> ELSE <<>>)
    \o (IF stack \in {REACT_FASTAPI, FASTAPI_ONLY} /\ ~get_file(project, <<MAIN_PY>>)
        THEN << <<"Missing backend entry point:", <<MAIN_PY>> >> >> ELSE <<>>)
    \o AllPlaceholderErrors(project.files)
    \o AllEmptyFileErrors(project.files)

\* mutant: the checks stop after the failure of the first one
ValidationErrors_ShortCircuit(project, stack) ==
    IF project.files = <<>> THEN << <<"No files were generated">> >>
    ELSE ValidationErrors_NoCount(project, stack)

\* the error list of _validate (lines 427-462)
ValidationErrors(project, stack) ==
    (IF project.files = <<>> THEN << <<"No files were generated">> >> ELSE <<>>)
    \o (IF stack \in {REACT_FASTAPI, REACT_ONLY} /\ ~get_file(project, <<APP_TSX>>)
        THEN << <<"Missing frontend entry point:", <<APP_TSX>> >> >> ELSE <<>>)
    \o (IF stack \in {REACT_FASTAPI, FASTAPI_ONLY} /\ ~get_file(project, <<MAIN_PY>>)
        THEN << <<"Missing backend entry point:", <<MAIN_PY>> >> >> ELSE <<>>)
    \o AllPlaceholderErrors(project.files)
    \o AllEmptyFileErrors(project.files)

\* -------------------------------------------------------------- environment
Paths == {APP_TSX, MAIN_PY}
Bodies == {<<>>, <<CODE, NL>>}
Blocks == {<<NL>>} \cup {<<FILE_MARK, p, NL>> \o b : p \in Paths, b \in Bodies}

\* provider outputs made of exactly n blocks
RECURSIVE OutputsOf(_)
OutputsOf(n) ==
    IF n = 0 THEN {<<>>} ELSE {t \o b : t \in OutputsOf(n - 1), b \in Blocks}

\* what a provider reports for a call that returned `content`
LLMResponse(content, model) ==
    [content |-> content, model |-> model,
     tokens_in |-> PromptTokens, tokens_out |-> Len(content)]

\* entry of the log of provider calls; the text of an answer is kept for
\* GENERATE and ITERATE, whose answers are parsed for files
Call(phase, r, flag) ==
    [phase |-> phase, model |-> r.model,
     content |-> IF phase \in {GENERATE, ITERATE} THEN r.content ELSE <<>>,
     tokens |-> r.tokens_in + r.tokens_out, recitation |-> flag]

\* provider that llm_call / llm_stream hands a request for `model` to
\* (llm.py lines 299-317, 330-347); "none" stands for the ValueError
Route(model, gkey, cavail) ==
    LET gemini_model == model \in {GEMINI_FLASH, GEMINI_PRO} IN
    IF gemini_model /\ gkey THEN "gemini"
    ELSE IF ~gemini_model /\ cavail THEN "claude"
    ELSE IF gkey THEN "gemini"
    ELSE IF cavail THEN "claude"
    ELSE "none"

\* request.model as call_gemini / stream_gemini read it: llm_call and
\* llm_stream rewrite it when a Claude model is handed to Gemini (llm.py
\* lines 303-307, 335-339); it is the model of the response and of the done chunk
ServedModel(model, gkey, cavail) ==
    IF model \in {CLAUDE_SONNET, CLAUDE_HAIKU} /\ ~cavail /\ gkey THEN GEMINI_PRO ELSE model

\* values of the recitation field of the done chunk: stream_gemini sets it
\* when the provider ends the stream with RECITATION, stream_claude never does
RecitationFlags(route) == IF route = "gemini" THEN BOOLEAN ELSE {FALSE}

DefaultAnalysis ==
    [complexity |-> "standard", stack |-> REACT_FASTAPI,
     needs_auth |-> FALSE, needs_database |-> TRUE]

\* content of the ANALYZE response: a JSON object, or text json.loads rejects
\* JSON that is not an object, and a JSON object whose stack is no Stack value
AnalysisContents ==
    {[unparseable |-> "not json"], [nonobject |-> "[]"]} \cup
    {[complexity |-> "standard", stack |-> "vue-express",
      needs_auth |-> FALSE, needs_database |-> TRUE]} \cup
    {[complexity |-> "standard", stack |-> s, needs_auth |-> FALSE, needs_database |-> TRUE] :
        s \in Stacks}

SuppliedSpecs ==
    {[stack |-> s, complexity |-> "standard", auth_strategy |-> "none", database |-> "sqlite"] :
        s \in Stacks}

File1 == ProjectFile(<<APP_TSX>>, <<CODE>>)
File2 == ProjectFile(<<MAIN_PY>>, <<CODE>>)
ExistingProjects ==
    {[files |-> <<File1>>, version |-> 1, frontend_deps |-> <<>>, backend_deps |-> <<>>],
     [files |-> <<File1, File2>>, version |-> 2,
      frontend_deps |-> <<DEP_REACT>>, backend_deps |-> <<>>]}

\* -------------------------------------------------------------------- state
VARIABLES
    gemini_key, anthropic_key,   \* Pipeline._gemini_key / _anthropic_key are non-empty
    claude_available,            \* claude_available of create_llm_caller / create_streaming_caller
    pc,                          \* position of the call in progress
    mode,                        \* "run" or "stream_run"
    spec_given,                  \* the caller passed a spec
    spec,                        \* local spec of run / stream_run
    existing,                    \* argument existing_project
    analysis,                    \* value returned by _analyze
    phases,                      \* Pipeline._phases, the ledger
    models_to_try, attempt,      \* candidate list and the index of the current one
    used_model,
    response,                    \* last LLMResponse of the batch loop
    pending,                     \* text the open provider stream has not delivered yet
    recitation,                  \* the open stream ends flagged as a content block
    accumulated, emitted_paths,
    total_tokens_in, total_tokens_out,
    token_chars,                 \* atoms yielded in token events of the current attempt
    events,                      \* events yielded by stream_run, token events excepted
    project,                     \* generated / merged project
    errors,                      \* list returned by _validate
    result,                      \* GenerationResult of run, or data of the done event
    calls,                       \* requests sent to llm_call / llm_stream, with the answers
    budget,                      \* blocks the providers may still return in this run
    studio_db,                   \* studio_projects row and studio_versions rows of one project
    requests,                    \* the persistence calls in progress, one per server thread
    vox_live_ws                  \* one /api/vox/live connection: the handler's locals and its sessions

vars == <<vox_live_ws, studio_db, requests, gemini_key, anthropic_key, claude_available, pc, mode, spec_given, spec, existing, analysis,
          phases, models_to_try, attempt, used_model, response, pending, recitation,
          accumulated, emitted_paths, total_tokens_in, total_tokens_out, token_chars,
          events, project, errors, result, calls, budget>>

\* the persistence service is not part of a pipeline run
NoDb == [none |-> "db"]
NoSocket == [none |-> "ws"]
StudioUnused == studio_db = NoDb /\ requests = <<>> /\ vox_live_ws = NoSocket

streamVars == <<pending, recitation, accumulated, emitted_paths, total_tokens_in,
                total_tokens_out, token_chars>>

Init ==
    /\ StudioUnused
    /\ gemini_key \in BOOLEAN
    /\ anthropic_key \in BOOLEAN
    /\ claude_available \in (IF anthropic_key THEN BOOLEAN ELSE {FALSE})
    /\ pc = "idle"
    /\ mode = "none"
    /\ spec_given = FALSE
    /\ spec = NoSpec
    /\ existing = NoProject
    /\ analysis = NoAnalysis
    /\ phases = <<>>
    /\ models_to_try = <<>>
    /\ attempt = 0
    /\ used_model = ""
    /\ response = NoResponse
    /\ pending = <<>>
    /\ recitation = FALSE
    /\ accumulated = <<>>
    /\ emitted_paths = {}
    /\ total_tokens_in = 0
    /\ total_tokens_out = 0
    /\ token_chars = 0
    /\ events = <<>>
    /\ project = NoProject
    /\ errors = <<>>
    /\ result = NoResult
    /\ calls = <<>>
    /\ budget = MaxBlocks

PhaseResult(phase, success, tokens, model) ==
    [phase |-> phase, success |-> success, tokens_used |-> tokens, model |-> model]

AppendRecord_Replace(ledger, rec) == <<rec>>

\* self._phases.append(PhaseResult(...))
AppendRecord(ledger, rec) == Append(ledger, rec)

\* mutant: a phase is announced only when it concludes
PhaseEvent_NoStart(phase, status) ==
    [event |-> "phase", phase |-> phase, status |-> "completed"]

PhaseEvent(phase, status) == [event |-> "phase", phase |-> phase, status |-> status]

YieldLedger_Early(before, after) == after

\* the ledger a consumer can read at a yield that precedes the phase's await
YieldLedger(before, after) == before

\* each yielded event, annotated with the length of self._phases at its yield
Stamp(evs, ledger) == [i \in 1..Len(evs) |-> evs[i] @@ [ledger |-> Len(ledger)]]

\* events yielded by a step that leaves the ledger alone
Emit(evs) ==
    events' = IF mode = "stream_run" THEN events \o Stamp(evs, phases) ELSE events

\* events yielded before and after the step's append to the ledger
EmitAround(before, after, ledger) ==
    events' = IF mode = "stream_run"
              THEN events \o Stamp(before, YieldLedger(phases, ledger)) \o Stamp(after, ledger)
              ELSE events

\* --------------------------------------------------- run / stream_run entry
\* mutant: the existing project is ignored
EntryPoint_Analyze(e) == "analyze"

\* `if existing_project:` of run / stream_run (lines 80, 133)
EntryPoint(e) == IF e # NoProject THEN "iterate" ELSE "analyze"

\* run(user_request, spec, existing_project), lines 76-81
Run(s, e) ==
    /\ pc = "idle"
    /\ mode' = "run"
    /\ phases' = <<>>
    /\ spec' = s
    /\ spec_given' = (s # NoSpec)
    /\ existing' = e
    /\ pc' = EntryPoint(e)
    /\ UNCHANGED <<vox_live_ws, studio_db, requests, gemini_key, anthropic_key, claude_available, analysis, models_to_try, attempt, used_model,
                   response, streamVars, events, project, errors, result, calls, budget>>

\* stream_run(user_request, spec, existing_project), lines 127-136
StreamRun(s, e) ==
    /\ pc = "idle"
    /\ mode' = "stream_run"
    /\ phases' = <<>>
    /\ spec' = s
    /\ spec_given' = (s # NoSpec)
    /\ existing' = e
    /\ pc' = EntryPoint(e)
    /\ UNCHANGED <<vox_live_ws, studio_db, requests, gemini_key, anthropic_key, claude_available, analysis, models_to_try, attempt, used_model,
                   response, streamVars, events, project, errors, result, calls, budget>>

\* outcome of a run that an exception leaves
Raised(exception, phase) == [exception |-> exception, phase |-> phase]

\* mutant: the request is sent although no provider can serve it
ProviderAvailable_Always == TRUE

\* some provider can serve a request (llm.py lines 299-317, 330-347)
ProviderAvailable == Route(GEMINI_FLASH, gemini_key, claude_available) # "none"

\* the first provider call of a run raises ValueError: no key is configured, or
\* only the anthropic key and its SDK is missing; stream_run has yielded the
\* started event of the phase by then
NoProvider ==
    /\ pc \in {"analyze", "iterate"}
    /\ ~ProviderAvailable
    /\ Emit(<<PhaseEvent(IF pc = "analyze" THEN ANALYZE ELSE ITERATE, "started")>>)
    /\ pc' = "raised"
    /\ result' = Raised("ValueError", IF pc = "analyze" THEN ANALYZE ELSE ITERATE)
    /\ UNCHANGED <<vox_live_ws, studio_db, requests, gemini_key, anthropic_key, claude_available, mode, spec_given, spec,
                   existing, analysis, phases, models_to_try, attempt, used_model,
                   response, streamVars, project, errors, calls, budget>>

\* phase whose provider call is about to be made, or whose stream is open
CallingPhase ==
    CASE pc = "analyze" -> ANALYZE
      [] pc = "plan" -> PLAN
      [] pc \in {"call", "g_open", "g_stream"} -> GENERATE
      [] pc \in {"iterate", "i_stream"} -> ITERATE

\* a provider call fails (a timeout, a network error) instead of returning:
\* no caller of self._llm / self._llm_stream has an exception handler, so the
\* exception leaves run / stream_run; stream_run has yielded the started event
\* of the phase by then
CallTimesOut ==
    /\ pc \in {"analyze", "plan", "call", "iterate", "g_open", "g_stream", "i_stream"}
    /\ ProviderAvailable
    /\ Emit(IF pc \in {"analyze", "plan", "iterate"}
               THEN <<PhaseEvent(CallingPhase, "started")>> ELSE <<>>)
    /\ pc' = "raised"
    /\ result' = Raised("TimeoutError", CallingPhase)
    /\ UNCHANGED <<vox_live_ws, studio_db, requests, gemini_key, anthropic_key, claude_available, mode, spec_given, spec,
                   existing, analysis, phases, models_to_try, attempt, used_model,
                   response, streamVars, project, errors, calls, budget>>

\* ----------------------------------------------------------------- ANALYZE
ParseAnalysis(content) ==
    IF "unparseable" \in DOMAIN content THEN DefaultAnalysis ELSE content

ResponseTokens(r) == r.tokens_in + r.tokens_out

CompletedEvent(rec) ==
    [event |-> "phase", phase |-> rec.phase, status |-> "completed",
     model |-> rec.model, tokens_used |-> rec.tokens_used]

\* _analyze, with the events stream_run yields around it
Analyze ==
    /\ pc = "analyze"
    /\ ProviderAvailable
    /\ \E c \in AnalysisContents :
        LET r == LLMResponse(<<c>>, select_model(ANALYZE, gemini_key, anthropic_key))
            rec == PhaseResult(ANALYZE, TRUE, ResponseTokens(r),
                              ServedModel(r.model, gemini_key, claude_available))
        IN  /\ analysis' = ParseAnalysis(c)
            /\ phases' = AppendRecord(phases, rec)
            /\ calls' = Append(calls, Call(ANALYZE, r, FALSE))
            /\ EmitAround(<<PhaseEvent(ANALYZE, "started")>>, <<CompletedEvent(rec)>>,
                          AppendRecord(phases, rec))
    /\ pc' = "spec"
    /\ UNCHANGED <<vox_live_ws, studio_db, requests, gemini_key, anthropic_key, claude_available, mode, spec_given, spec, existing,
                   models_to_try, attempt, used_model, response, streamVars,
                   project, errors, result, budget>>

\* -------------------------------------------------------------------- SPEC
\* analysis.get(key, default); a missing needs_* key reads as None, which is
\* falsy like False
Get(a, key, default) == IF key \in DOMAIN a THEN a[key] ELSE default

Complexities == {"simple", "standard", "complex"}

\* mutant: the auth strategy ignores needs_auth
SpecOf_NoAuth(a) ==
    [stack |-> Get(a, "stack", REACT_FASTAPI),
     complexity |-> Get(a, "complexity", "standard"),
     auth_strategy |-> "none", database |-> "sqlite"]

\* _spec_from_analysis (lines 253-265); name and description, copies of the
\* request, are left out
SpecOf(a) ==
    [stack |-> Get(a, "stack", REACT_FASTAPI),
     complexity |-> Get(a, "complexity", "standard"),
     auth_strategy |-> IF Get(a, "needs_auth", FALSE) THEN "jwt" ELSE "none",
     database |-> IF Get(a, "needs_database", FALSE) THEN "sqlite" ELSE "sqlite"]

\* analysis.get(...), Complexity(...) and Stack(...) of _spec_from_analysis
\* (lines 255-256) succeed
SpecBuildable(a) ==
    /\ "nonobject" \notin DOMAIN a
    /\ Get(a, "stack", REACT_FASTAPI) \in Stacks
    /\ Get(a, "complexity", "standard") \in Complexities

\* _spec_from_analysis raises: AttributeError for an analysis without get,
\* ValueError for a stack that is no member of Stack
SpecRaises ==
    /\ pc = "spec"
    /\ spec = NoSpec
    /\ ~SpecBuildable(analysis)
    /\ pc' = "raised"
    /\ result' = Raised(IF "nonobject" \in DOMAIN analysis THEN "AttributeError"
                        ELSE "ValueError", SPEC)
    /\ UNCHANGED <<vox_live_ws, studio_db, requests, gemini_key, anthropic_key, claude_available, mode, spec_given, spec,
                   existing, analysis, phases, models_to_try, attempt, used_model,
                   response, streamVars, events, project, errors, calls, budget>>

\* mutant: the SPEC record is appended whether or not a spec was passed
SpecStepLedger_Always(ledger, s) == Append(ledger, PhaseResult(SPEC, TRUE, 0, ""))

\* ledger after the SPEC step of run / stream_run (lines 87-88, 148-149)
SpecStepLedger(ledger, s) ==
    IF s = NoSpec THEN AppendRecord(ledger, PhaseResult(SPEC, TRUE, 0, "")) ELSE ledger

\* `if spec is None: spec = self._spec_from_analysis(...)`; the analysis is not
\* read again after this step
SpecStep ==
    /\ pc = "spec"
    /\ spec # NoSpec \/ SpecBuildable(analysis)
    /\ spec' = IF spec = NoSpec THEN SpecOf(analysis) ELSE spec
    /\ phases' = SpecStepLedger(phases, spec)
    /\ analysis' = NoAnalysis
    /\ EmitAround(<<>>, <<PhaseEvent(SPEC, "completed")>>, SpecStepLedger(phases, spec))
    /\ pc' = "plan"
    /\ UNCHANGED <<vox_live_ws, studio_db, requests, gemini_key, anthropic_key, claude_available, mode, spec_given, existing,
                   models_to_try, attempt, used_model, response, streamVars,
                   project, errors, result, calls, budget>>

\* -------------------------------------------------------------------- PLAN
\* _plan, with the events stream_run yields around it; the plan text is opaque
Plan ==
    /\ pc = "plan"
    /\ LET r == LLMResponse(<<"plan">>, select_model(PLAN, gemini_key, anthropic_key))
           rec == PhaseResult(PLAN, TRUE, ResponseTokens(r),
                              ServedModel(r.model, gemini_key, claude_available))
       IN  /\ phases' = AppendRecord(phases, rec)
           /\ calls' = Append(calls, Call(PLAN, r, FALSE))
           /\ EmitAround(<<PhaseEvent(PLAN, "started")>>,
                         <<CompletedEvent(rec), [event |-> "studio_plan"]>>,
                         AppendRecord(phases, rec))
    /\ pc' = "generate"
    /\ UNCHANGED <<vox_live_ws, studio_db, requests, gemini_key, anthropic_key, claude_available, mode, spec_given, spec, existing, analysis,
                   models_to_try, attempt, used_model, response, streamVars,
                   project, errors, result, budget>>

\* ---------------------------------------------------------------- GENERATE
\* mutant: the primary stays among the fallbacks
RemoveModel_Keep(ms, m) == ms

\* fallback_models = [m for m in fallback_models if m != primary_model] (line 355)
RemoveModel(ms, m) == SelectSeq(ms, LAMBDA x : x # m)

\* models_to_try of _generate / _stream_generate (lines 346-357, 590-597)
ModelsToTry(gkey, akey) ==
    LET primary_model == select_model(GENERATE, gkey, akey)
        fallback_models == (IF akey THEN <<CLAUDE_SONNET>> ELSE <<>>)
                           \o (IF gkey THEN <<GEMINI_FLASH>> ELSE <<>>)
    IN  <<primary_model>> \o RemoveModel(fallback_models, primary_model)

\* entry of _generate / _stream_generate up to the candidate loop
GenerateStart ==
    /\ pc = "generate"
    /\ models_to_try' = ModelsToTry(gemini_key, anthropic_key)
    /\ used_model' = select_model(GENERATE, gemini_key, anthropic_key)
    /\ attempt' = 1
    /\ response' = NoResponse
    /\ accumulated' = <<>>
    /\ emitted_paths' = {}
    /\ total_tokens_in' = 0
    /\ total_tokens_out' = 0
    /\ Emit(<<PhaseEvent(GENERATE, "started")>>)
    /\ pc' = IF mode = "stream_run" THEN "g_open" ELSE "call"
    /\ UNCHANGED <<vox_live_ws, studio_db, requests, gemini_key, anthropic_key, claude_available, mode, spec_given, spec, existing, analysis,
                   phases, pending, recitation, token_chars, project, errors, result, calls, budget>>

\* one pass of the candidate loop of _generate (lines 362-390)
GenerateAttempt ==
    /\ pc = "call"
    /\ \E n \in 0..budget : \E text \in OutputsOf(n) :
        /\ response' = LLMResponse(text, models_to_try[attempt])
        /\ calls' = Append(calls, Call(GENERATE, LLMResponse(text, models_to_try[attempt]), FALSE))
        /\ budget' = budget - n
        /\ used_model' = models_to_try[attempt]
        /\ IF Strip(text) # <<>> \/ attempt = Len(models_to_try)
             THEN pc' = "finish" /\ attempt' = attempt
             ELSE pc' = "call" /\ attempt' = attempt + 1
    /\ UNCHANGED <<vox_live_ws, studio_db, requests, gemini_key, anthropic_key, claude_available, mode, spec_given, spec, existing, analysis,
                   phases, models_to_try, streamVars, events, project, errors, result>>

\* tokens_used of the GENERATE record of _generate (line 416)
GenerateTokens(r) == r.tokens_in + r.tokens_out

\* Project(files=..., frontend_deps=..., backend_deps=...) of _generate /
\* _stream_generate; version starts at 1
NewProject(files, deps) ==
    [files |-> files, version |-> 1,
     frontend_deps |-> deps.frontend, backend_deps |-> deps.backend]

\* _generate after the loop (lines 392-421)
GenerateFinish ==
    /\ pc = "finish"
    /\ mode = "run"
    /\ project' = NewProject(parse_files_from_response(response.content),
                             parse_deps_from_response(response.content))
    /\ phases' = AppendRecord(phases, PhaseResult(GENERATE, TRUE, GenerateTokens(response), used_model))
    /\ pc' = "validate"
    /\ UNCHANGED <<vox_live_ws, studio_db, requests, gemini_key, anthropic_key, claude_available, mode, spec_given, spec, existing, analysis,
                   models_to_try, attempt, used_model, response, streamVars, events,
                   errors, result, calls, budget>>

\* ---------------------------------------------------------------- VALIDATE
\* _validate, with the event stream_run yields after it (lines 168-174)
Validate ==
    /\ pc = "validate"
    /\ LET errs == ValidationErrors(project, spec.stack) IN
       /\ errors' = errs
       /\ phases' = AppendRecord(phases, PhaseResult(VALIDATE, errs = <<>>, 0, ""))
       /\ EmitAround(<<>>,
                     <<[event |-> "phase", phase |-> VALIDATE,
                        status |-> IF errs = <<>> THEN "completed" ELSE "failed",
                        errors |-> errs]>>,
                     AppendRecord(phases, PhaseResult(VALIDATE, errs = <<>>, 0, "")))
    /\ pc' = "return"
    /\ UNCHANGED <<vox_live_ws, studio_db, requests, gemini_key, anthropic_key, claude_available, mode, spec_given, spec, existing, analysis,
                   models_to_try, attempt, used_model, response, streamVars,
                   project, result, calls, budget>>

\* the validator on its own: ValidateSpec draws a stack and a file list as the
\* parser returns it (every content cleaned) and applies _validate to them
SHORT == "x = 1"
README == "README.md"
ValidateBodies ==
    {<<>>, <<CODE>>, <<NL, CODE, NL>>, <<SHORT>>, <<SHORT, SHORT>>, <<SHORT, NL, SHORT>>,
     <<SHORT, NL, NL, NL, NL, NL, NL>>, <<CODE, NL, TODO_JS>>, <<CODE, NL, TODO_PY>>,
     <<CODE, NL, DOTS, NL, DOTS>>, <<CODE, NL, DOTS, NL, DOTS, NL, DOTS>>, <<TODO_PY>>}
ValidateFiles ==
    {ProjectFile(<<p>>, _clean_content(b)) : p \in {APP_TSX, MAIN_PY, README}, b \in ValidateBodies}
ValidateProjects ==
    {NewProject(fs, [frontend |-> <<>>, backend |-> <<>>]) :
        fs \in UNION {[1..k -> ValidateFiles] : k \in 0..MaxFiles}}

\* the variables the specifications of a single function leave alone
Unused ==
    /\ StudioUnused
    /\ gemini_key = TRUE /\ anthropic_key = TRUE /\ claude_available = TRUE
    /\ mode = "none" /\ spec_given = FALSE /\ analysis = NoAnalysis
    /\ phases = <<>> /\ models_to_try = <<>> /\ attempt = 0 /\ used_model = ""
    /\ pending = <<>> /\ recitation = FALSE /\ accumulated = <<>> /\ emitted_paths = {}
    /\ total_tokens_in = 0 /\ total_tokens_out = 0 /\ token_chars = 0
    /\ events = <<>> /\ result = NoResult /\ calls = <<>> /\ budget = 0

ValidateInit ==
    /\ Unused
    /\ existing = NoProject /\ response = NoResponse
    /\ pc = "v_in"
    /\ spec \in SuppliedSpecs
    /\ project \in ValidateProjects
    /\ errors = <<>>

ValidateApply ==
    /\ pc = "v_in"
    /\ errors' = ValidationErrors(project, spec.stack)
    /\ pc' = "v_out"
    /\ UNCHANGED <<vox_live_ws, studio_db, requests, gemini_key, anthropic_key, claude_available, mode, spec_given, spec,
                   existing, analysis, phases, models_to_try, attempt, used_model,
                   response, streamVars, events, project, result, calls, budget>>

ValidateSpec == ValidateInit /\ [][ValidateApply]_vars

RECURSIVE SumTokens(_)
SumTokens(ledger) ==
    IF ledger = <<>> THEN 0 ELSE Head(ledger).tokens_used + SumTokens(Tail(ledger))

\* mutant: the result reports success whatever VALIDATE found
RunSuccess_Always(errs) == TRUE

\* GenerationResult.success of run (line 107)
RunSuccess(errs) == Len(errs) = 0

\* run, lines 99-109
RunReturn ==
    /\ pc = "return"
    /\ mode = "run"
    /\ result' = [project |-> project, phases |-> phases,
                  total_tokens |-> SumTokens(phases),
                  success |-> RunSuccess(errors), errors |-> errors]
    /\ pc' = "done"
    /\ UNCHANGED <<vox_live_ws, studio_db, requests, gemini_key, anthropic_key, claude_available, mode, spec_given, spec, existing, analysis,
                   phases, models_to_try, attempt, used_model, response, streamVars,
                   events, project, errors, calls, budget>>

\* ----------------------------------------------------------------- ITERATE
ChangedPaths(changed) == {changed[i].path : i \in 1..Len(changed)}

\* mutant: the changed files are appended to the list of the given project
GivenProject_InPlace(old, changed_files) == [old EXCEPT !.files = @ \o changed_files]

\* existing_project after the merge: list(...), the comprehension, `+` and
\* model_copy build new objects (lines 530-546, 798-810)
GivenProject(old, changed_files) == old

\* mutant: a dependency the project already lists is not added again
Merge_Dedupe(old, changed_files, new_deps) ==
    [files |-> SelectSeq(old.files, LAMBDA f : f.path \notin ChangedPaths(changed_files))
               \o changed_files,
     version |-> old.version + 1,
     frontend_deps |-> old.frontend_deps
          \o SelectSeq(new_deps.frontend,
                       LAMBDA d : \A i \in 1..Len(old.frontend_deps) : old.frontend_deps[i] # d),
     backend_deps |-> old.backend_deps
          \o SelectSeq(new_deps.backend,
                       LAMBDA d : \A i \in 1..Len(old.backend_deps) : old.backend_deps[i] # d)]

\* mutant: the version counter is carried over unchanged
Merge_SameVersion(old, changed_files, new_deps) ==
    [files |-> SelectSeq(old.files, LAMBDA f : f.path \notin ChangedPaths(changed_files))
               \o changed_files,
     version |-> old.version,
     frontend_deps |-> old.frontend_deps \o new_deps.frontend,
     backend_deps |-> old.backend_deps \o new_deps.backend]

\* mutant: the old versions of the changed files are kept
Merge_KeepOld(old, changed_files, new_deps) ==
    [files |-> old.files \o changed_files,
     version |-> old.version + 1,
     frontend_deps |-> old.frontend_deps \o new_deps.frontend,
     backend_deps |-> old.backend_deps \o new_deps.backend]

\* the merge of _iterate / _stream_iterate (lines 530-546, 798-810)
Merge(old, changed_files, new_deps) ==
    [files |-> SelectSeq(old.files, LAMBDA f : f.path \notin ChangedPaths(changed_files))
               \o changed_files,
     version |-> old.version + 1,
     frontend_deps |-> old.frontend_deps \o new_deps.frontend,
     backend_deps |-> old.backend_deps \o new_deps.backend]

\* the merge on its own: MergeSpec draws an existing project with unique paths
\* and what the parsers returned, and applies the merge of _iterate to them
MergePaths == {<<"a">>, <<"b">>, <<"c">>, <<"d">>}
SeqsUpTo(S, n) == UNION {[1..k -> S] : k \in 0..n}
Distinct(ps) == \A i, j \in 1..Len(ps) : i # j => ps[i] # ps[j]
FilesOf(ps, content) == [i \in 1..Len(ps) |-> ProjectFile(ps[i], content)]
MergeExisting ==
    {[files |-> FilesOf(ps, <<"old">>), version |-> v,
      frontend_deps |-> fd, backend_deps |-> <<>>] :
        ps \in {q \in SeqsUpTo(MergePaths, MaxExisting) : Distinct(q)},
        v \in 1..2, fd \in {<<>>, <<DEP_REACT>>}}
MergeChanged ==
    {[changed_files |-> FilesOf(ps, <<"new">>), new_deps |-> [frontend |-> f, backend |-> b]] :
        ps \in SeqsUpTo(MergePaths, MaxChanged),
        f \in {<<>>, <<DEP_REACT>>}, b \in {<<>>, <<DEP_FASTAPI>>}}

MergeInit ==
    /\ Unused
    /\ pc = "m_in"
    /\ spec = NoSpec
    /\ errors = <<>>
    /\ existing \in MergeExisting
    /\ response \in MergeChanged
    /\ project = NoProject

\* one iteration; calls logs the project each iteration was given
MergeApply ==
    /\ pc = "m_in"
    /\ project' = Merge(existing, response.changed_files, response.new_deps)
    /\ calls' = Append(calls, [phase |-> ITERATE, existing |-> existing])
    /\ pc' = "m_out"
    /\ UNCHANGED <<vox_live_ws, studio_db, requests, gemini_key, anthropic_key, claude_available, mode, spec_given, spec,
                   existing, analysis, phases, models_to_try, attempt, used_model,
                   response, streamVars, events, errors, result, budget>>

\* the caller iterates again on the result, and the provider's output
\* declares the same files and dependencies again
MergeAgain ==
    /\ pc = "m_out"
    /\ Len(calls) < MaxIterations
    /\ existing' = project
    /\ pc' = "m_in"
    /\ UNCHANGED <<vox_live_ws, studio_db, requests, gemini_key, anthropic_key, claude_available, mode, spec_given, spec,
                   analysis, phases, models_to_try, attempt, used_model,
                   response, streamVars, events, project, errors, result, calls, budget>>

MergeNext == MergeApply \/ MergeAgain

MergeSpec == MergeInit /\ [][MergeNext]_vars

\* mutant: the router is asked for the GENERATE model
IterateModel_Generate(gkey, akey) == select_model(GENERATE, gkey, akey)

\* model of the single ITERATE request (lines 520, 748)
IterateModel(gkey, akey) == select_model(ITERATE, gkey, akey)

\* mutant: an iteration that changed no file is reported as failed
IterateSuccess_Changed(changed_files) == changed_files # <<>>

\* GenerationResult.success of _iterate (line 568); errors keeps its default
IterateSuccess(changed_files) == TRUE

\* mutant: the prompt tokens are left out of the total
IterateTotalTokens_OutOnly(r) == r.tokens_out

\* total_tokens of the GenerationResult of _iterate (line 567)
IterateTotalTokens(r) == r.tokens_in + r.tokens_out

\* _iterate (lines 495-569): one provider call, merge, record, result
Iterate ==
    /\ pc = "iterate"
    /\ mode = "run"
    /\ ProviderAvailable
    /\ \E n \in 0..budget : \E text \in OutputsOf(n) :
        LET r == LLMResponse(text, IterateModel(gemini_key, anthropic_key))
            merged == Merge(existing, parse_files_from_response(r.content),
                            parse_deps_from_response(r.content))
            ledger == AppendRecord(phases, PhaseResult(ITERATE, TRUE, ResponseTokens(r),
                              ServedModel(r.model, gemini_key, claude_available)))
        IN  /\ response' = r
            /\ calls' = Append(calls, Call(ITERATE, r, FALSE))
            /\ budget' = budget - n
            /\ project' = merged
            /\ existing' = GivenProject(existing, parse_files_from_response(r.content))
            /\ phases' = ledger
            /\ result' = [project |-> merged, phases |-> ledger,
                          total_tokens |-> IterateTotalTokens(r),
                          success |-> IterateSuccess(parse_files_from_response(r.content)),
                          errors |-> <<>>]
    /\ pc' = "done"
    /\ UNCHANGED <<vox_live_ws, studio_db, requests, gemini_key, anthropic_key, claude_available, mode, spec_given, spec, analysis,
                   models_to_try, attempt, used_model, streamVars, events, errors>>

\* ------------------------------------------------- streaming file extraction
\* studio_file event; attempt, seen (atoms yielded as tokens in that attempt
\* when the event is yielded) and pass (incremental scan or final pass) locate
\* the event in the sequence
FileEvent(path, content, att, seen, pass) ==
    [event |-> "studio_file", path |-> path, content |-> content,
     attempt |-> att, seen |-> seen, pass |-> pass]

\* mutant: the buffer is replaced by the fragment
Accumulate_Replace(acc, chunk) == chunk

\* accumulated += chunk["content"] (lines 632, 759)
Accumulate(acc, chunk) == acc \o chunk

\* mutant: the incremental scan yields nothing
ScanMatches_None(ms, emitted, att, seen) == <<>>

\* the loop over FILE_PATTERN.finditer(accumulated) (lines 636-647, 762-773)
RECURSIVE ScanMatches(_, _, _, _)
ScanMatches(ms, emitted, att, seen) ==
    IF ms = <<>> THEN <<>>
    ELSE LET path == Strip(Head(ms).group1) IN
         IF path \in emitted THEN ScanMatches(Tail(ms), emitted, att, seen)
         ELSE <<FileEvent(path, _clean_content(Head(ms).group2), att, seen, "incremental")>>
              \o ScanMatches(Tail(ms), emitted \cup {path}, att, seen)

MatchedPaths(acc) ==
    LET ms == FILE_PATTERN(acc) IN {Strip(ms[i].group1) : i \in 1..Len(ms)}

\* final pass of _stream_generate (lines 663-672): emitted paths are recorded
RECURSIVE FinalPassGenerate(_, _, _, _)
FinalPassGenerate(files, emitted, att, seen) ==
    IF files = <<>> THEN <<>>
    ELSE IF Head(files).path \in emitted
         THEN FinalPassGenerate(Tail(files), emitted, att, seen)
         ELSE <<FileEvent(Head(files).path, Head(files).content, att, seen, "final")>>
              \o FinalPassGenerate(Tail(files), emitted \cup {Head(files).path}, att, seen)

\* final pass of _stream_iterate (lines 781-789): emitted paths are not recorded
RECURSIVE FinalPassIterate(_, _, _, _)
FinalPassIterate(files, emitted, att, seen) ==
    IF files = <<>> THEN <<>>
    ELSE (IF Head(files).path \in emitted THEN <<>>
          ELSE <<FileEvent(Head(files).path, Head(files).content, att, seen, "final")>>)
         \o FinalPassIterate(Tail(files), emitted, att, seen)

\* ------------------------------------------------------- streaming GENERATE
\* top of the candidate loop of _stream_generate (lines 605-629): the request
\* is sent and the provider fixes what it will deliver
StreamGenerateOpen ==
    /\ pc = "g_open"
    /\ accumulated' = <<>>
    /\ emitted_paths' = {}
    /\ token_chars' = 0
    /\ \E n \in 0..budget : \E text \in OutputsOf(n) :
       \E r \in RecitationFlags(Route(models_to_try[attempt], gemini_key, claude_available)) :
        /\ pending' = text
        /\ calls' = Append(calls, Call(GENERATE, LLMResponse(text, models_to_try[attempt]), r))
        /\ recitation' = r
        /\ budget' = budget - n
    /\ pc' = "g_stream"
    /\ UNCHANGED <<vox_live_ws, studio_db, requests, gemini_key, anthropic_key, claude_available, mode, spec_given, spec, existing, analysis,
                   phases, models_to_try, attempt, used_model, response,
                   total_tokens_in, total_tokens_out, events, project, errors, result>>

\* a token chunk in _stream_generate (lines 631-647)
StreamGenerateToken ==
    /\ pc = "g_stream"
    /\ pending # <<>>
    /\ \E k \in 1..Len(pending) :
        LET acc == Accumulate(accumulated, SubSeq(pending, 1, k)) IN
        /\ accumulated' = acc
        /\ pending' = SubSeq(pending, k + 1, Len(pending))
        /\ token_chars' = token_chars + k
        /\ Emit(ScanMatches(FILE_PATTERN(acc), emitted_paths, attempt, token_chars + k))
        /\ emitted_paths' = emitted_paths \cup MatchedPaths(acc)
    /\ UNCHANGED <<vox_live_ws, studio_db, requests, gemini_key, anthropic_key, claude_available, pc, mode, spec_given, spec, existing, analysis,
                   phases, models_to_try, attempt, used_model, response, recitation,
                   total_tokens_in, total_tokens_out, project, errors, result, calls, budget>>

\* total_tokens_in / total_tokens_out on a done chunk (lines 650-651, 776-777)
DoneTokensIn(before, reported) == reported
DoneTokensOut(before, reported) == reported

\* the attempt is rejected (line 655)
Rejected(flag, acc) == flag \/ Strip(acc) = <<>>

\* the done chunk and the end of one pass of the loop (lines 649-660)
StreamGenerateDone ==
    /\ pc = "g_stream"
    /\ pending = <<>>
    /\ total_tokens_in' = DoneTokensIn(total_tokens_in, PromptTokens)
    /\ total_tokens_out' = DoneTokensOut(total_tokens_out, Len(accumulated))
    /\ used_model' = ServedModel(calls[Len(calls)].model, gemini_key, claude_available)
    /\ IF Rejected(recitation, accumulated) /\ attempt < Len(models_to_try)
         THEN pc' = "g_open" /\ attempt' = attempt + 1
         ELSE pc' = "g_finish" /\ attempt' = attempt
    /\ UNCHANGED <<vox_live_ws, studio_db, requests, gemini_key, anthropic_key, claude_available, mode, spec_given, spec, existing, analysis,
                   phases, models_to_try, response, pending, recitation, accumulated,
                   emitted_paths, token_chars, events, project, errors, result, calls, budget>>

\* the studio_deps event (lines 674-679, 791-796), yielded when a manifest was found
DepsEvent(deps) ==
    IF deps.frontend # <<>> \/ deps.backend # <<>>
        THEN <<[event |-> "studio_deps", frontend |-> deps.frontend, backend |-> deps.backend]>>
        ELSE <<>>

\* _stream_generate after the loop (lines 662-712)
StreamGenerateFinish ==
    /\ pc = "g_finish"
    /\ LET files == parse_files_from_response(accumulated)
           rec == PhaseResult(GENERATE, TRUE, total_tokens_in + total_tokens_out, used_model)
       IN  /\ EmitAround(FinalPassGenerate(files, emitted_paths, attempt, token_chars)
                           \o DepsEvent(parse_deps_from_response(accumulated)),
                         <<CompletedEvent(rec)>>, AppendRecord(phases, rec))
           /\ emitted_paths' = emitted_paths \cup ChangedPaths(files)
           /\ project' = NewProject(files, parse_deps_from_response(accumulated))
           /\ phases' = AppendRecord(phases, rec)
    /\ pc' = "validate"
    /\ UNCHANGED <<vox_live_ws, studio_db, requests, gemini_key, anthropic_key, claude_available, mode, spec_given, spec, existing, analysis,
                   models_to_try, attempt, used_model, response, pending, recitation,
                   accumulated, total_tokens_in, total_tokens_out, token_chars,
                   errors, result, calls, budget>>

\* -------------------------------------------------------- streaming ITERATE
\* _stream_iterate up to the provider stream (lines 722-757)
StreamIterateOpen ==
    /\ pc = "iterate"
    /\ mode = "stream_run"
    /\ ProviderAvailable
    /\ Emit(<<PhaseEvent(ITERATE, "started")>>)
    /\ accumulated' = <<>>
    /\ emitted_paths' = {}
    /\ total_tokens_in' = 0
    /\ total_tokens_out' = 0
    /\ token_chars' = 0
    /\ used_model' = ""
    /\ attempt' = 1
    /\ \E n \in 0..budget : \E text \in OutputsOf(n) :
       \E r \in RecitationFlags(Route(IterateModel(gemini_key, anthropic_key),
                                      gemini_key, claude_available)) :
        /\ pending' = text
        /\ calls' = Append(calls, Call(ITERATE,
                LLMResponse(text, IterateModel(gemini_key, anthropic_key)), r))
        /\ recitation' = r
        /\ budget' = budget - n
    /\ pc' = "i_stream"
    /\ UNCHANGED <<vox_live_ws, studio_db, requests, gemini_key, anthropic_key, claude_available, mode, spec_given, spec, existing, analysis,
                   phases, models_to_try, response, project, errors, result>>

\* a token chunk in _stream_iterate (lines 758-773)
StreamIterateToken ==
    /\ pc = "i_stream"
    /\ pending # <<>>
    /\ \E k \in 1..Len(pending) :
        LET acc == Accumulate(accumulated, SubSeq(pending, 1, k)) IN
        /\ accumulated' = acc
        /\ pending' = SubSeq(pending, k + 1, Len(pending))
        /\ token_chars' = token_chars + k
        /\ Emit(ScanMatches(FILE_PATTERN(acc), emitted_paths, attempt, token_chars + k))
        /\ emitted_paths' = emitted_paths \cup MatchedPaths(acc)
    /\ UNCHANGED <<vox_live_ws, studio_db, requests, gemini_key, anthropic_key, claude_available, pc, mode, spec_given, spec, existing, analysis,
                   phases, models_to_try, attempt, used_model, response, recitation,
                   total_tokens_in, total_tokens_out, project, errors, result, calls, budget>>

\* the done chunk of _stream_iterate (lines 775-778); its recitation flag is not read
StreamIterateDone ==
    /\ pc = "i_stream"
    /\ pending = <<>>
    /\ total_tokens_in' = DoneTokensIn(total_tokens_in, PromptTokens)
    /\ total_tokens_out' = DoneTokensOut(total_tokens_out, Len(accumulated))
    /\ used_model' = ServedModel(calls[Len(calls)].model, gemini_key, claude_available)
    /\ pc' = "i_finish"
    /\ UNCHANGED <<vox_live_ws, studio_db, requests, gemini_key, anthropic_key, claude_available, mode, spec_given, spec, existing, analysis,
                   phases, models_to_try, attempt, response, pending, recitation,
                   accumulated, emitted_paths, token_chars, events, project, errors,
                   result, calls, budget>>

\* _stream_iterate after the stream (lines 780-830)
StreamIterateFinish ==
    /\ pc = "i_finish"
    /\ LET changed_files == parse_files_from_response(accumulated)
           rec == PhaseResult(ITERATE, TRUE, total_tokens_in + total_tokens_out, used_model)
       IN  /\ EmitAround(FinalPassIterate(changed_files, emitted_paths, attempt, token_chars)
                           \o DepsEvent(parse_deps_from_response(accumulated)),
                         <<CompletedEvent(rec)>>, AppendRecord(phases, rec))
           /\ project' = Merge(existing, changed_files, parse_deps_from_response(accumulated))
           /\ existing' = GivenProject(existing, changed_files)
           /\ phases' = AppendRecord(phases, rec)
    /\ pc' = "return"
    /\ UNCHANGED <<vox_live_ws, studio_db, requests, gemini_key, anthropic_key, claude_available, mode, spec_given, spec, analysis,
                   models_to_try, attempt, used_model, response, streamVars,
                   errors, result, calls, budget>>

\* success and errors of the done event of stream_run (lines 185-186)
StreamSuccess(errs) == TRUE
StreamErrors(errs) == <<>>

\* mutant: the terminal event is yielded twice
DoneEvents_Twice(done) == <<[event |-> "done", data |-> done], [event |-> "done", data |-> done]>>

\* the terminal event of stream_run (lines 180-187)
DoneEvents(done) == <<[event |-> "done", data |-> done]>>

\* stream_run, lines 176-187
StreamReturn ==
    /\ pc = "return"
    /\ mode = "stream_run"
    /\ LET done == [project |-> project, total_tokens |-> SumTokens(phases),
                    success |-> StreamSuccess(errors), errors |-> StreamErrors(errors)]
       IN  /\ result' = done
           /\ Emit(DoneEvents(done))
    /\ pc' = "done"
    /\ UNCHANGED <<vox_live_ws, studio_db, requests, gemini_key, anthropic_key, claude_available, mode, spec_given, spec, existing, analysis,
                   phases, models_to_try, attempt, used_model, response, streamVars,
                   project, errors, calls, budget>>

\* ------------------------------------------------------------ specification
Next ==
    \/ \E s \in SuppliedSpecs \cup {NoSpec}, e \in ExistingProjects \cup {NoProject} : Run(s, e)
    \/ \E s \in SuppliedSpecs \cup {NoSpec}, e \in ExistingProjects \cup {NoProject} :
          StreamRun(s, e)
    \/ Analyze
    \/ SpecStep
    \/ Plan
    \/ GenerateStart
    \/ GenerateAttempt
    \/ GenerateFinish
    \/ Validate
    \/ RunReturn
    \/ NoProvider
    \/ CallTimesOut
    \/ SpecRaises
    \/ Iterate
    \/ StreamGenerateOpen
    \/ StreamGenerateToken
    \/ StreamGenerateDone
    \/ StreamGenerateFinish
    \/ StreamIterateOpen
    \/ StreamIterateToken
    \/ StreamIterateDone
    \/ StreamIterateFinish
    \/ StreamReturn

Spec == Init /\ [][Next]_vars

\* the router on its own: RouterSpec draws the credential set and makes up to
\* MaxSelects calls of select_model, logging the phase asked for and the answer
Phases == {ANALYZE, SPEC, PLAN, GENERATE, VALIDATE, ITERATE}

RouterInit ==
    /\ StudioUnused
    /\ gemini_key \in BOOLEAN /\ anthropic_key \in BOOLEAN /\ claude_available = FALSE
    /\ pc = "select"
    /\ mode = "none" /\ spec_given = FALSE /\ spec = NoSpec /\ existing = NoProject
    /\ analysis = NoAnalysis /\ phases = <<>> /\ models_to_try = <<>> /\ attempt = 0
    /\ used_model = "" /\ response = NoResponse
    /\ pending = <<>> /\ recitation = FALSE /\ accumulated = <<>> /\ emitted_paths = {}
    /\ total_tokens_in = 0 /\ total_tokens_out = 0 /\ token_chars = 0
    /\ events = <<>> /\ project = NoProject /\ errors = <<>> /\ result = NoResult
    /\ calls = <<>> /\ budget = 0

Select(phase) ==
    /\ pc = "select"
    /\ Len(calls) < MaxSelects
    /\ calls' = Append(calls, [phase |-> phase,
                               model |-> select_model(phase, gemini_key, anthropic_key)])
    /\ UNCHANGED <<vox_live_ws, studio_db, requests, gemini_key, anthropic_key, claude_available, pc, mode, spec_given, spec,
                   existing, analysis, phases, models_to_try, attempt, used_model,
                   response, streamVars, events, project, errors, result, budget>>

\* the candidate list _generate / _stream_generate build from the same keys
Candidates ==
    /\ pc = "select"
    /\ models_to_try = <<>>
    /\ models_to_try' = ModelsToTry(gemini_key, anthropic_key)
    /\ UNCHANGED <<vox_live_ws, studio_db, requests, gemini_key, anthropic_key, claude_available, pc, mode, spec_given, spec,
                   existing, analysis, phases, calls, attempt, used_model,
                   response, streamVars, events, project, errors, result, budget>>

RouterNext == (\E phase \in Phases : Select(phase)) \/ Candidates

RouterSpec == RouterInit /\ [][RouterNext]_vars

\* ------------------------------------------------------------------
\* Two runs on one Pipeline instance.  self._phases is an attribute of the
\* instance that run() rebinds to a new list; here `phases` is the sequence of
\* the list objects created so far, self._phases is the last of them, and a
\* result refers to the list object it was built with.  A step runs from one
\* await of the provider to the next; spec is None and the first GENERATE
\* candidate is accepted.  Records carry the run that appended them.
Runs == {"A", "B"}
MaxCallTokens == 2
CallTokens == 1..MaxCallTokens

SelfPhases(heap) == heap[Len(heap)]
AppendSelf(heap, rec) == [heap EXCEPT ![Len(heap)] = AppendRecord(@, rec)]
RunRecord(r, phase, tokens) == PhaseResult(phase, TRUE, tokens, "") @@ [run |-> r]

LedgerInit ==
    /\ StudioUnused
    /\ gemini_key = TRUE /\ anthropic_key = TRUE /\ claude_available = TRUE
    /\ pc = [r \in Runs |-> "idle"]
    /\ mode = [r \in Runs |-> "none"]
    /\ phases = << <<>> >>
    /\ result = [r \in Runs |-> NoResult]
    /\ spec_given = FALSE /\ spec = NoSpec /\ existing = NoProject
    /\ analysis = NoAnalysis /\ models_to_try = <<>> /\ attempt = 0
    /\ used_model = "" /\ response = NoResponse
    /\ pending = <<>> /\ recitation = FALSE /\ accumulated = <<>> /\ emitted_paths = {}
    /\ total_tokens_in = 0 /\ total_tokens_out = 0 /\ token_chars = 0
    /\ events = <<>> /\ project = NoProject /\ errors = <<>>
    /\ calls = <<>> /\ budget = 0

LedgerUnchanged ==
    UNCHANGED <<vox_live_ws, studio_db, requests, gemini_key, anthropic_key, claude_available, spec_given, spec, existing,
                analysis, models_to_try, attempt, used_model, response, streamVars,
                events, project, errors, calls, budget>>

RunResult(heap) ==
    [phases |-> Len(heap), total_tokens |-> SumTokens(SelfPhases(heap))]

\* run(): `self._phases = []`, then up to the first await of the provider
RunBegin(r) ==
    /\ pc[r] = "idle"
    /\ \E kind \in {"generate", "iterate"} :
        /\ mode' = [mode EXCEPT ![r] = kind]
        /\ pc' = [pc EXCEPT ![r] = IF kind = "iterate" THEN "await_iterate"
                                                     ELSE "await_analyze"]
    /\ phases' = Append(phases, <<>>)
    /\ UNCHANGED result
    /\ LedgerUnchanged

\* the ANALYZE call returns: its record, the SPEC record, up to the PLAN call
AnalyzeReturns(r) ==
    /\ pc[r] = "await_analyze"
    /\ \E t \in CallTokens :
        phases' = AppendSelf(AppendSelf(phases, RunRecord(r, ANALYZE, t)),
                             RunRecord(r, SPEC, 0))
    /\ pc' = [pc EXCEPT ![r] = "await_plan"]
    /\ UNCHANGED <<mode, result>>
    /\ LedgerUnchanged

\* the PLAN call returns: its record, up to the GENERATE call
PlanReturns(r) ==
    /\ pc[r] = "await_plan"
    /\ \E t \in CallTokens : phases' = AppendSelf(phases, RunRecord(r, PLAN, t))
    /\ pc' = [pc EXCEPT ![r] = "await_generate"]
    /\ UNCHANGED <<mode, result>>
    /\ LedgerUnchanged

\* the GENERATE call returns: its record, the VALIDATE record, the result
GenerateReturns(r) ==
    /\ pc[r] = "await_generate"
    /\ \E t \in CallTokens :
        LET heap == AppendSelf(AppendSelf(phases, RunRecord(r, GENERATE, t)),
                               RunRecord(r, VALIDATE, 0))
        IN  /\ phases' = heap
            /\ result' = [result EXCEPT ![r] = RunResult(heap)]
    /\ pc' = [pc EXCEPT ![r] = "done"]
    /\ UNCHANGED mode
    /\ LedgerUnchanged

\* the ITERATE call returns: its record, the result
IterateReturns(r) ==
    /\ pc[r] = "await_iterate"
    /\ \E t \in CallTokens :
        LET heap == AppendSelf(phases, RunRecord(r, ITERATE, t))
        IN  /\ phases' = heap
            /\ result' = [result EXCEPT ![r] = RunResult(heap)]
    /\ pc' = [pc EXCEPT ![r] = "done"]
    /\ UNCHANGED mode
    /\ LedgerUnchanged

LedgerNext ==
    \E r \in Runs :
        \/ RunBegin(r)
        \/ AnalyzeReturns(r)
        \/ PlanReturns(r)
        \/ GenerateReturns(r)
        \/ IterateReturns(r)

LedgerSpec == LedgerInit /\ [][LedgerNext]_vars

\* ------------------------------------------------------------------
\* _spec_from_analysis on its own: every JSON object of the schema ANALYZE
\* asks for (lines 202-208), each key present or missing
NoKeys == [k \in {} |-> TRUE]
AnalysisObjects ==
    {c @@ st @@ au @@ db :
        c \in {("complexity" :> v) : v \in Complexities} \cup {NoKeys},
        st \in {("stack" :> v) : v \in Stacks} \cup {NoKeys},
        au \in {("needs_auth" :> v) : v \in BOOLEAN} \cup {NoKeys},
        db \in {("needs_database" :> v) : v \in BOOLEAN} \cup {NoKeys}}

DeriveInit ==
    /\ StudioUnused
    /\ gemini_key = TRUE /\ anthropic_key = TRUE /\ claude_available = TRUE
    /\ mode = "none" /\ spec_given = FALSE /\ existing = NoProject
    /\ phases = <<>> /\ models_to_try = <<>> /\ attempt = 0 /\ used_model = ""
    /\ response = NoResponse
    /\ pending = <<>> /\ recitation = FALSE /\ accumulated = <<>> /\ emitted_paths = {}
    /\ total_tokens_in = 0 /\ total_tokens_out = 0 /\ token_chars = 0
    /\ events = <<>> /\ project = NoProject /\ errors = <<>> /\ result = NoResult
    /\ calls = <<>> /\ budget = 0
    /\ pc = "s_in"
    /\ spec = NoSpec
    /\ analysis \in AnalysisObjects

DeriveApply ==
    /\ pc = "s_in"
    /\ SpecBuildable(analysis)
    /\ spec' = SpecOf(analysis)
    /\ pc' = "s_out"
    /\ UNCHANGED <<vox_live_ws, studio_db, requests, gemini_key, anthropic_key, claude_available, mode, spec_given,
                   existing, analysis, phases, models_to_try, attempt, used_model,
                   response, streamVars, events, project, errors, result, calls, budget>>

DeriveSpec == DeriveInit /\ [][DeriveApply]_vars

\* ------------------------------------------------------------------
\* studio_persistence: one stored project (created by create_project), its
\* versions, and the calls the server's threads make on it.  The routes are
\* plain `def` handlers, so two requests run in two threads; a step is one
\* connection's statements up to its commit.
MaxVersions == 3
Threads == {1, 2}
StudioFiles == {[app |-> "v1"], [app |-> "v2"]}

\* json.dumps / json.loads between a files value and the TEXT column
json_dumps(v) == [json |-> v]
json_loads(text) == text.json

PipelineVars ==
    <<gemini_key, anthropic_key, claude_available, pc, mode, spec_given, spec, existing,
      analysis, phases, models_to_try, attempt, used_model, response, streamVars,
      events, project, errors, result, calls, budget>>

NoRow == [none |-> "row"]
NoReturn == [none |-> "return"]
None == [none |-> "None"]
\* before and clean are history: the files when restore_version was called, and
\* that no other thread has written the files column since
IdleCall ==
    [op |-> "idle", pc |-> "idle", n |-> 0, data |-> NoProject, row |-> NoRow,
     project |-> NoProject, before |-> NoProject, clean |-> TRUE, ret |-> NoReturn]

\* get_project (lines 114-127)
get_project(db) ==
    [files |-> json_loads(db.files), current_version |-> db.current_version]

\* mutant: the snapshot holds the column default instead of the files
VersionRow_Default(p) ==
    [version_number |-> p.current_version + 1, files |-> json_dumps([app |-> "{}"])]

\* the row save_version inserts (lines 181-194)
VersionRow(p) ==
    [version_number |-> p.current_version + 1, files |-> json_dumps(p.files)]

VersionInit ==
    /\ gemini_key = TRUE /\ anthropic_key = TRUE /\ claude_available = TRUE
    /\ pc = "persistence" /\ mode = "none" /\ spec_given = FALSE /\ spec = NoSpec
    /\ existing = NoProject /\ analysis = NoAnalysis
    /\ phases = <<>> /\ models_to_try = <<>> /\ attempt = 0 /\ used_model = ""
    /\ response = NoResponse
    /\ pending = <<>> /\ recitation = FALSE /\ accumulated = <<>> /\ emitted_paths = {}
    /\ total_tokens_in = 0 /\ total_tokens_out = 0 /\ token_chars = 0
    /\ events = <<>> /\ project = NoProject /\ errors = <<>> /\ result = NoResult
    /\ calls = <<>> /\ budget = 0
    /\ \E f \in StudioFiles :
          studio_db = [files |-> json_dumps(f), current_version |-> 0, versions |-> <<>>]
    /\ requests = [t \in Threads |-> IdleCall]
    /\ vox_live_ws = NoSocket

Saving(t) == requests[t].op \in {"save", "restore"} /\ requests[t].pc # "returned"
SaveRoom ==
    Len(studio_db.versions) + Cardinality({t \in Threads : Saving(t)}) < MaxVersions

\* the other threads' restores have seen a write of the files column
Disturb(reqs, t) ==
    [u \in Threads |-> IF u = t THEN reqs[u] ELSE [reqs[u] EXCEPT !.clean = FALSE]]

\* a request arrives: api_save_version, api_restore_version, api_update_project
BeginRequest(t) ==
    /\ requests[t].pc = "idle"
    /\ \/ /\ SaveRoom
          /\ requests' = [requests EXCEPT ![t] =
                 [IdleCall EXCEPT !.op = "save", !.pc = "s_read"]]
       \/ /\ SaveRoom
          /\ \E n \in 1..MaxVersions :
              requests' = [requests EXCEPT ![t] =
                 [IdleCall EXCEPT !.op = "restore", !.pc = "r_select", !.n = n,
                                  !.before = json_loads(studio_db.files)]]
       \/ \E f \in StudioFiles :
              requests' = [requests EXCEPT ![t] =
                 [IdleCall EXCEPT !.op = "update", !.pc = "u_write", !.data = f]]
    /\ UNCHANGED studio_db
    /\ UNCHANGED <<PipelineVars, vox_live_ws>>

\* restore_version: SELECT files of version n (lines 231-239); without ORDER BY
\* any matching row can be the one fetched
RestoreSelect(t) ==
    /\ requests[t].pc = "r_select"
    /\ LET rows == SelectSeq(studio_db.versions,
                             LAMBDA v : v.version_number = requests[t].n)
       IN  IF rows = <<>>
           THEN requests' = [requests EXCEPT ![t].pc = "returned", ![t].ret = None]
           ELSE \E i \in 1..Len(rows) :
                   requests' = [requests EXCEPT ![t].pc = "s_read", ![t].row = rows[i].files]
    /\ UNCHANGED studio_db
    /\ UNCHANGED <<PipelineVars, vox_live_ws>>

\* save_version: project = get_project(project_id) (lines 177-179)
SaveRead(t) ==
    /\ requests[t].pc = "s_read"
    /\ requests' = [requests EXCEPT ![t].pc = "s_write",
                                    ![t].project = get_project(studio_db)]
    /\ UNCHANGED studio_db
    /\ UNCHANGED <<PipelineVars, vox_live_ws>>

\* save_version: INSERT the snapshot, UPDATE current_version, commit
\* (lines 180-209)
SaveInsert(t) ==
    /\ requests[t].pc = "s_write"
    /\ LET v == VersionRow(requests[t].project) IN
       /\ studio_db' = [studio_db EXCEPT !.versions = Append(@, v),
                                         !.current_version = v.version_number]
       /\ requests' =
             IF requests[t].op = "save"
             THEN [requests EXCEPT ![t].pc = "returned",
                                   ![t].ret = [version_number |-> v.version_number]]
             ELSE [requests EXCEPT ![t].pc = "r_update"]
    /\ UNCHANGED <<PipelineVars, vox_live_ws>>

\* restore_version: UPDATE studio_projects SET files (lines 244-250)
RestoreUpdate(t) ==
    /\ requests[t].pc = "r_update"
    /\ studio_db' = [studio_db EXCEPT !.files = requests[t].row]
    /\ requests' = Disturb([requests EXCEPT ![t].pc = "r_get"], t)
    /\ UNCHANGED <<PipelineVars, vox_live_ws>>

\* restore_version: return get_project(project_id) (line 253)
RestoreReturn(t) ==
    /\ requests[t].pc = "r_get"
    /\ requests' = [requests EXCEPT ![t].pc = "returned",
                                    ![t].ret = get_project(studio_db)]
    /\ UNCHANGED studio_db
    /\ UNCHANGED <<PipelineVars, vox_live_ws>>

\* update_project with a files value (lines 130-156)
UpdateProject(t) ==
    /\ requests[t].pc = "u_write"
    /\ studio_db' = [studio_db EXCEPT !.files = json_dumps(requests[t].data)]
    /\ requests' = Disturb([requests EXCEPT ![t].pc = "returned",
                                             ![t].ret = [changed |-> TRUE]], t)
    /\ UNCHANGED <<PipelineVars, vox_live_ws>>

\* the handler has answered; the thread takes the next request
Respond(t) ==
    /\ requests[t].pc = "returned"
    /\ requests' = [requests EXCEPT ![t] = IdleCall]
    /\ UNCHANGED studio_db
    /\ UNCHANGED <<PipelineVars, vox_live_ws>>

VersionNext ==
    \E t \in Threads :
        \/ BeginRequest(t)
        \/ RestoreSelect(t)
        \/ SaveRead(t)
        \/ SaveInsert(t)
        \/ RestoreUpdate(t)
        \/ RestoreReturn(t)
        \/ UpdateProject(t)
        \/ Respond(t)

VersionSpec == VersionInit /\ [][VersionNext]_vars

\* ------------------------------------------------------------------
\* One /api/vox/live connection.  vox_live_ws holds the handler's locals
\* session and muted, every VoxLiveSession the handler has constructed
\* (session is an index into them, 0 for None), and whether the handler is
\* in its receive loop ("open") or has exited ("closed").  A step is the
\* handling of one received message, or the end of a session's receive loop.
MaxStarts == 3
Themes == {"expert", "casual"}

\* VoxLiveSession.__init__ (vox_session.py lines 188-205)
VoxLiveSession(theme) ==
    [theme |-> theme, connected |-> FALSE, receive_task |-> "none", was_connected |-> FALSE]

\* VoxLiveSession.connect once the Live API session is open (lines 247-251)
connect(s) ==
    [s EXCEPT !.connected = TRUE, !.receive_task = "running", !.was_connected = TRUE]

\* VoxLiveSession.disconnect (lines 254-270)
disconnect(s) ==
    [s EXCEPT !.connected = FALSE,
              !.receive_task = IF @ = "running" THEN "cancelled" ELSE @]

\* session = VoxLiveSession(...): the local is rebound (vox_live.py lines 103-109)
Rebind(old, new) == new

\* the `finally` of the handler: if session: await session.disconnect()
\* (vox_live.py lines 137-140)
Cleanup(w) ==
    [w EXCEPT !.pc = "closed",
              !.sessions = [i \in 1..Len(w.sessions) |->
                               IF i = w.session THEN disconnect(w.sessions[i])
                               ELSE w.sessions[i]]]

LiveInit ==
    /\ gemini_key = TRUE /\ anthropic_key = TRUE /\ claude_available = TRUE
    /\ pc = "live" /\ mode = "none" /\ spec_given = FALSE /\ spec = NoSpec
    /\ existing = NoProject /\ analysis = NoAnalysis
    /\ phases = <<>> /\ models_to_try = <<>> /\ attempt = 0 /\ used_model = ""
    /\ response = NoResponse
    /\ pending = <<>> /\ recitation = FALSE /\ accumulated = <<>> /\ emitted_paths = {}
    /\ total_tokens_in = 0 /\ total_tokens_out = 0 /\ token_chars = 0
    /\ events = <<>> /\ project = NoProject /\ errors = <<>> /\ result = NoResult
    /\ calls = <<>> /\ budget = 0
    /\ studio_db = NoDb /\ requests = <<>>
    /\ vox_live_ws = [pc |-> "open", session |-> 0, muted |-> FALSE, sessions |-> <<>>]

LiveUnchanged == UNCHANGED <<PipelineVars, studio_db, requests>>

\* a "start" message (vox_live.py lines 101-113): a new session is bound to
\* `session` and connected; connect() may raise, which ends the handler
Start ==
    /\ vox_live_ws.pc = "open"
    /\ Len(vox_live_ws.sessions) < MaxStarts
    /\ \E theme \in Themes : \E raised \in BOOLEAN :
        LET k == Len(vox_live_ws.sessions) + 1
            s == VoxLiveSession(theme)
            w == [vox_live_ws EXCEPT !.session = Rebind(@, k)]
        IN  vox_live_ws' =
               IF raised THEN Cleanup([w EXCEPT !.sessions = Append(@, s)])
               ELSE [w EXCEPT !.sessions = Append(@, connect(s))]
    /\ LiveUnchanged

\* a "mute" message (lines 120-121)
Mute ==
    /\ vox_live_ws.pc = "open"
    /\ \E m \in BOOLEAN : vox_live_ws' = [vox_live_ws EXCEPT !.muted = m]
    /\ LiveUnchanged

\* an "end" message (lines 123-129): disconnect, break, then the finally
End ==
    /\ vox_live_ws.pc = "open"
    /\ vox_live_ws' = Cleanup(Cleanup(vox_live_ws))
    /\ LiveUnchanged

\* WebSocketDisconnect or any other exception out of the loop (lines 131-140)
Disconnected ==
    /\ vox_live_ws.pc = "open"
    /\ vox_live_ws' = Cleanup(vox_live_ws)
    /\ LiveUnchanged

\* the receive loop of a session ends by itself (vox_session.py lines 294-343)
ReceiveLoopEnds ==
    /\ \E i \in 1..Len(vox_live_ws.sessions) :
        /\ vox_live_ws.sessions[i].receive_task = "running"
        /\ vox_live_ws' = [vox_live_ws EXCEPT !.sessions[i].connected = FALSE,
                                              !.sessions[i].receive_task = "finished"]
    /\ LiveUnchanged

LiveNext == Start \/ Mute \/ End \/ Disconnected \/ ReceiveLoopEnds

LiveSpec == LiveInit /\ [][LiveNext]_vars

\* ================================================================== claims
PhaseSeq(ledger) == [i \in 1..Len(ledger) |-> ledger[i].phase]
LedgerOf(phase) == SelectSeq(phases, LAMBDA rec : rec.phase = phase)
CallsOf(phase) == SelectSeq(calls, LAMBDA c : c.phase = phase)
FileEvents == SelectSeq(events, LAMBDA e : e.event = "studio_file")
PhaseEvents == SelectSeq(events, LAMBDA e : e.event = "phase")

Returned == pc = "done"
GeneratePath == existing = NoProject
StreamingPhase == IF GeneratePath THEN GENERATE ELSE ITERATE
\* text the provider delivers in attempt att of the streaming phase
StreamText(att) == CallsOf(StreamingPhase)[att].content
StreamFinished == mode = "stream_run" /\ pc \in {"validate", "return", "done"}

RECURSIVE LedgerSum(_, _)
LedgerSum(ledger, i) ==
    IF i = 0 THEN 0 ELSE ledger[i].tokens_used + LedgerSum(ledger, i - 1)

\* first match of FILE_PATTERN in buf that declares path
FirstMatch(buf, path) ==
    LET ms == FILE_PATTERN(buf)
        i == CHOOSE i \in 1..Len(ms) :
                /\ Strip(ms[i].group1) = path
                /\ \A j \in 1..(i - 1) : Strip(ms[j].group1) # path
    IN  ms[i]

\* last atom of the buffer that is part of the cleaned content of match m
ContentEnd(m) == m.stop - (Len(m.group2) - Len(RStrip(m.group2)))

C2_IterateOnly ==
    ~GeneratePath =>
        /\ \A i \in 1..Len(phases) : phases[i].phase = ITERATE
        /\ \A i \in 1..Len(calls) : calls[i].phase = ITERATE
        /\ \A i \in 1..Len(PhaseEvents) : PhaseEvents[i].phase = ITERATE
        /\ Len(phases) <= 1
        /\ Returned => PhaseSeq(phases) = <<ITERATE>>
        /\ (Returned /\ mode = "run") => PhaseSeq(result.phases) = <<ITERATE>>

C2_Witness ==
    /\ Returned /\ ~GeneratePath /\ mode = "stream_run"
    /\ PhaseSeq(phases) = <<ITERATE>>

\* C3 as stated: with two credentialed providers, a primary that returns empty
\* content and a secondary that returns non-empty content, the GENERATE record
\* carries the secondary's model and the tokens of both attempts.
C3_Claim ==
    LET g == CallsOf(GENERATE)
        recs == LedgerOf(GENERATE)
    IN  (/\ gemini_key /\ anthropic_key
         /\ Len(recs) = 1 /\ Len(g) = 2
         /\ g[1].content = <<>> /\ ~g[1].recitation
         /\ Strip(g[2].content) # <<>> /\ ~g[2].recitation)
        => /\ recs[1].model = models_to_try[2]
           /\ recs[1].tokens_used = g[1].tokens + g[2].tokens

\* C4 as stated: within one stream_run no path appears in more than one
\* studio_file event, over all attempts and the final pass.
C4_Claim ==
    \A i, j \in 1..Len(FileEvents) : i < j => FileEvents[i].path # FileEvents[j].path

\* C5 as stated: in the non-iterate path the terminal result has success false
\* exactly when VALIDATE found errors, carries those errors and the project,
\* for run() and for the done event of stream_run().
C5_Claim ==
    (Returned /\ GeneratePath)
        => /\ result.success = (errors = <<>>)
           /\ result.errors = errors
           /\ result.project = project

\* C6: total_tokens of every returned result / done event is the sum of
\* tokens_used over the ledger of the run.
C6_TotalTokens ==
    Returned =>
        /\ result.total_tokens = LedgerSum(phases, Len(phases))
        /\ mode = "run" => result.phases = phases

C6_Witness ==
    /\ Returned /\ mode = "run" /\ ~GeneratePath
    /\ result.total_tokens > PromptTokens

\* C7: the artifact set streaming GENERATE ends with is the one the delivered
\* text gives when fed as a single fragment, whatever the fragments were.
C7_SplitIndependent ==
    (StreamFinished /\ GeneratePath)
        => project.files = parse_files_from_response(StreamText(attempt))

\* a stream of at least two fragments that produced a file
C7_Witness ==
    /\ StreamFinished /\ GeneratePath
    /\ project.files # <<>>
    /\ \E i \in 1..Len(FileEvents) :
          /\ FileEvents[i].attempt = attempt
          /\ FileEvents[i].seen < token_chars

\* C8 as stated: an incremental studio_file event is yielded only when the
\* artifact's terminating boundary is in the buffer, and within an attempt its
\* content is the content of that path in the final artifact set.
C8_Claim ==
    \A i \in 1..Len(FileEvents) :
        LET e == FileEvents[i]
            buf == SubSeq(StreamText(e.attempt), 1, e.seen)
        IN  /\ e.pass = "incremental" => FirstMatch(buf, e.path).stop < Len(buf)
            /\ (StreamFinished /\ e.attempt = attempt)
                  => e.content = _clean_content(FirstMatch(accumulated, e.path).group2)

\* C9 as stated: a studio_file event for path P is not yielded before every
\* token event whose text contributes to P's content.
C9_Claim ==
    \A i \in 1..Len(FileEvents) :
        LET e == FileEvents[i] IN
        e.seen >= ContentEnd(FirstMatch(StreamText(e.attempt), e.path))

NoFilesError == <<"No files were generated">>
HasError(errs, e) == \E i \in 1..Len(errs) : errs[i] = e
\* every candidate of the batch GENERATE loop has answered, each with empty text
AllCandidatesEmpty ==
    LET g == CallsOf(GENERATE) IN
    /\ mode = "run" /\ GeneratePath
    /\ Len(g) > 0 /\ Len(g) = Len(models_to_try)
    /\ \A i \in 1..Len(g) : Strip(g[i].content) = <<>>

\* C11: when every GENERATE candidate returns empty content run() does not
\* raise: GENERATE is recorded once, VALIDATE runs, and the result has no
\* files, success false and the no-files error.
C11_ExhaustedFallback ==
    AllCandidatesEmpty =>
        /\ pc \in {"finish", "validate", "return", "done"}
        /\ pc # "finish" => Len(LedgerOf(GENERATE)) = 1 /\ project.files = <<>>
        /\ pc \in {"return", "done"} =>
              Len(LedgerOf(VALIDATE)) = 1 /\ HasError(errors, NoFilesError)
        /\ pc = "done" =>
              /\ result.project.files = <<>>
              /\ result.success = FALSE
              /\ HasError(result.errors, NoFilesError)
              /\ PhaseSeq(result.phases)[Len(result.phases) - 1] = GENERATE

C11_Witness ==
    /\ AllCandidatesEmpty /\ pc = "done"
    /\ Len(CallsOf(GENERATE)) = 2
    /\ ~result.success

\* C12: with no usable provider credential the run fails with an error before
\* any provider call is made and before any record is appended to the ledger,
\* although select_model returns a default id.
C12_NoCredential ==
    (~gemini_key /\ ~claude_available) =>
        /\ calls = <<>> /\ phases = <<>>
        /\ pc \in {"idle", "analyze", "iterate", "raised"}
        /\ pc = "raised" => result.exception = "ValueError"
        /\ ~anthropic_key =>
              \A ph \in {ANALYZE, SPEC, PLAN, GENERATE, VALIDATE, ITERATE} :
                  select_model(ph, gemini_key, anthropic_key) = GEMINI_FLASH

C12_Witness ==
    /\ ~gemini_key /\ ~anthropic_key
    /\ pc = "raised" /\ mode = "run" /\ GeneratePath
    /\ result = Raised("ValueError", ANALYZE)

\* C13 as stated: whatever the ANALYZE call returns, the classification is
\* recovered locally and no error caused by the payload reaches the caller:
\* building the spec from the analysis never raises.
C13_Claim == ~(pc = "raised" /\ result.phase = SPEC)

\* C14 as stated: a GENERATE provider call that fails is treated like an empty
\* response: with a candidate left the run goes on to it instead of aborting.
C14_Claim ==
    ~(/\ pc = "raised" /\ result.phase = GENERATE
      /\ result.exception = "TimeoutError"
      /\ attempt < Len(models_to_try))

PathsOf(files) == [i \in 1..Len(files) |-> files[i].path]
\* positions of old whose path no changed file declares
KeptOf(old, changed) ==
    {i \in 1..Len(old) : \A j \in 1..Len(changed) : changed[j].path # old[i].path}

\* C15: the merged file list is the existing files whose path is not changed,
\* in their original order, followed by the changed files in order; existing
\* a, b, c with changed b, d gives a, c, b, d with b and d changed.
C15_MergeOrder ==
    pc = "m_out" =>
        LET old == existing.files
            changed == response.changed_files
            new == project.files
            n == Len(new) - Len(changed)
        IN  /\ n = Cardinality(KeptOf(old, changed))
            /\ SubSeq(new, n + 1, Len(new)) = changed
            /\ \A i \in KeptOf(old, changed) :
                  new[Cardinality({k \in KeptOf(old, changed) : k <= i})] = old[i]
            /\ (PathsOf(old) = << <<"a">>, <<"b">>, <<"c">> >>
                  /\ PathsOf(changed) = << <<"b">>, <<"d">> >>)
                => new = << ProjectFile(<<"a">>, <<"old">>), ProjectFile(<<"c">>, <<"old">>),
                            ProjectFile(<<"b">>, <<"new">>), ProjectFile(<<"d">>, <<"new">>) >>

C15_Witness ==
    /\ pc = "m_out"
    /\ PathsOf(existing.files) = << <<"a">>, <<"b">>, <<"c">> >>
    /\ PathsOf(response.changed_files) = << <<"b">>, <<"d">> >>
    /\ PathsOf(project.files) = << <<"a">>, <<"c">>, <<"b">>, <<"d">> >>

\* ITERATE has produced its artifact set
Iterated == ~GeneratePath /\ project # NoProject
IterateChanged == parse_files_from_response(CallsOf(ITERATE)[1].content)

\* C16: every ITERATE gives a set whose version is the existing version plus
\* one, and with an empty changed set (and no new dependency) the set equals
\* the existing one in everything else.
C16_VersionIncrement ==
    Iterated =>
        /\ project.version = existing.version + 1
        /\ IterateChanged = <<>> =>
              /\ project.files = existing.files
              /\ project.frontend_deps = existing.frontend_deps
              /\ project.backend_deps = existing.backend_deps
              /\ DOMAIN project = DOMAIN existing

C16_Witness ==
    /\ Iterated /\ Returned
    /\ IterateChanged = <<>>
    /\ existing.version = 2 /\ project.version = 3
    /\ project.files = existing.files

\* C17 as stated: every artifact set GENERATE or the ITERATE merge produces has
\* pairwise distinct paths, also when the output declares a path twice.
C17_Claim == project # NoProject => Distinct(PathsOf(project.files))

\* C18: for every stack, validating a set with zero files returns a list that
\* holds the no-files-generated error.
C18_NoFiles ==
    (pc = "v_out" /\ project.files = <<>>) => HasError(errors, NoFilesError)

C18_Witness ==
    /\ pc = "v_out" /\ project.files = <<>>
    /\ spec.stack = FASTAPI_ONLY
    /\ Len(errors) = 2

\* the entry points the stack requires are among the files
EntryPointsPresent(files, stack) ==
    /\ stack \in {REACT_FASTAPI, REACT_ONLY} => \E i \in 1..Len(files) : files[i].path = <<APP_TSX>>
    /\ stack \in {REACT_FASTAPI, FASTAPI_ONLY} => \E i \in 1..Len(files) : files[i].path = <<MAIN_PY>>
\* no TODO marker and no ellipsis in the body
NoMarker(content) ==
    \A i \in 1..Len(content) : content[i] \notin {TODO_JS, TODO_PY, DOTS}

UsableEntries(prefs, gkey, akey) ==
    {i \in 1..Len(prefs) : (prefs[i][1] = "gemini" /\ gkey)
                            \/ (prefs[i][1] = "claude" /\ akey)}
\* the answer C21 describes
PreferredModel(phase, gkey, akey) ==
    LET prefs == PHASE_MODELS(phase)
        u == UsableEntries(prefs, gkey, akey)
    IN  IF u # {} THEN prefs[CHOOSE i \in u : \A j \in u : i <= j][2]
        ELSE IF gkey THEN GEMINI_FLASH
        ELSE IF akey THEN CLAUDE_SONNET
        ELSE GEMINI_FLASH

\* C21: select_model returns the first entry of the phase's preference list
\* whose provider has a credential, else the default model of a credentialed
\* provider, else (no credential at all) the default id; it always answers.
C21_FirstPreferred ==
    \A i \in 1..Len(calls) :
        /\ calls[i].model = PreferredModel(calls[i].phase, gemini_key, anthropic_key)
        /\ calls[i].model \in {GEMINI_FLASH, GEMINI_PRO, CLAUDE_HAIKU, CLAUDE_SONNET}
        /\ (calls[i].phase = ANALYZE /\ ~gemini_key /\ anthropic_key)
              => calls[i].model = CLAUDE_HAIKU
        /\ (calls[i].phase = ITERATE /\ gemini_key) => calls[i].model = GEMINI_PRO
        /\ (calls[i].phase = VALIDATE /\ ~gemini_key /\ anthropic_key)
              => calls[i].model = CLAUDE_SONNET

C21_Witness ==
    /\ pc = "select" /\ ~gemini_key /\ anthropic_key
    /\ Len(calls) = 2
    /\ calls[1] = [phase |-> PLAN, model |-> CLAUDE_SONNET]
    /\ calls[2] = [phase |-> ANALYZE, model |-> CLAUDE_HAIKU]

\* the phase of ledger record j has yielded its completed or failed event
\* among the first k events
Concluded(j, k) ==
    \E i \in 1..k : /\ events[i].event = "phase"
                    /\ events[i].phase = phases[j].phase
                    /\ events[i].status \in {"completed", "failed"}

\* C22: wherever the consumer of stream_run can stop pulling (at each yielded
\* event, and between two yields), the ledger holds only records of phases
\* whose work ran to completion: the ledger read at a yield has a record only
\* for phases whose concluding event is that yield or an earlier one, and the
\* phase whose stream is still in progress has no record
C22_CompletedOnly ==
    mode = "stream_run" =>
        /\ \A k \in 1..Len(events) : \A j \in 1..events[k].ledger : Concluded(j, k)
        /\ \A j \in 1..Len(phases) : Concluded(j, Len(events))
        /\ pc \in {"g_open", "g_stream", "g_finish"} => LedgerOf(GENERATE) = <<>>
        /\ pc \in {"i_stream", "i_finish"} => phases = <<>>

C22_Witness ==
    /\ mode = "stream_run"
    /\ pc = "g_stream"
    /\ FileEvents # <<>>
    /\ PhaseSeq(phases) = <<ANALYZE, SPEC, PLAN>>
    /\ events[Len(events)].ledger = 3

\* the ledger a finished run returned, as it reads now
ReturnedLedger(r) == phases[result[r].phases]
\* the records run r appended, wherever they are
OwnRecords(r) ==
    UNION {{ledger[i] : i \in {j \in 1..Len(ledger) : ledger[j].run = r}} :
           ledger \in {phases[n] : n \in 1..Len(phases)}}

\* C23: the ledger returned for a run holds only records appended by that
\* run, and all of them, whether the two runs on the instance follow each
\* other or interleave at the awaits
C23_Claim ==
    \A r \in Runs :
        result[r] # NoResult =>
            /\ \A i \in 1..Len(ReturnedLedger(r)) : ReturnedLedger(r)[i].run = r
            /\ {ReturnedLedger(r)[i] : i \in 1..Len(ReturnedLedger(r))} = OwnRecords(r)
            /\ result[r].total_tokens =
                   SumTokens(SelectSeq(ReturnedLedger(r), LAMBDA rec : rec.run = r))

IsPrefix(s, t) == Len(s) <= Len(t) /\ SubSeq(t, 1, Len(s)) = s
\* the phases whose code ran in a call that returned: those that called a
\* provider, SPEC when the spec was derived, VALIDATE after GENERATE
ExecutedPhases ==
    {calls[i].phase : i \in 1..Len(calls)}
        \cup (IF GeneratePath THEN {VALIDATE} ELSE {})
        \cup (IF GeneratePath /\ ~spec_given THEN {SPEC} ELSE {})
OneRecordEach ==
    /\ \A ph \in Phases : Len(LedgerOf(ph)) <= 1
    /\ Returned => \A ph \in Phases : Len(LedgerOf(ph)) = (IF ph \in ExecutedPhases THEN 1 ELSE 0)

\* C24: every step of a run leaves the records already in the ledger as they
\* are, in place, and each executed phase has exactly one record when the call
\* returns (never more than one before): GENERATE has one record however many
\* candidates were attempted
C24_AppendOnly == [][IsPrefix(phases, phases') /\ OneRecordEach']_vars

C24_Witness ==
    /\ Returned /\ GeneratePath
    /\ Len(CallsOf(GENERATE)) = 2
    /\ Len(LedgerOf(GENERATE)) = 1
    /\ Len(phases) = 5

\* the final parsed set of the streaming phase
FinalParsed == parse_files_from_response(accumulated)
Announced(path) ==
    \E j \in 1..Len(FileEvents) :
        FileEvents[j].attempt = attempt /\ FileEvents[j].path = path

\* C25: when streaming GENERATE or ITERATE has finished, every artifact of the
\* final parsed set has a studio_file event of the accepted attempt that
\* announces its path, the last artifact of the stream (whose body runs to the
\* end of the stream) included
C25_AllAnnounced ==
    StreamFinished =>
        \A i \in 1..Len(FinalParsed) : Announced(FinalParsed[i].path)

\* two artifacts, the second closed only by the end of the stream
C25_Witness ==
    /\ StreamFinished
    /\ Len(FinalParsed) = 2
    /\ FinalParsed[1].path # FinalParsed[2].path
    /\ FinalParsed[2].content # <<>>
    /\ FILE_PATTERN(accumulated)[2].stop = Len(accumulated)
    /\ Announced(FinalParsed[2].path)

\* the artifact set of the terminal done event holds path with content
InDoneSet(path, content) ==
    \E i \in 1..Len(result.project.files) :
        /\ result.project.files[i].path = path
        /\ result.project.files[i].content = content

\* C26 as stated: when a streaming GENERATE attempt was rejected and a later
\* candidate was accepted, every studio_file event the consumer received from
\* a rejected attempt carries a path and content of the artifact set of the
\* done event, so that nothing of the rejected output is surfaced.
C26_Claim ==
    (/\ Returned /\ mode = "stream_run" /\ GeneratePath
     /\ attempt > 1 /\ ~Rejected(recitation, accumulated)) =>
        \A i \in 1..Len(FileEvents) :
            FileEvents[i].attempt < attempt
                => InDoneSet(FileEvents[i].path, FileEvents[i].content)

\* the ANALYZE output of the end-to-end scenario
ScenarioAnalysis ==
    [complexity |-> "standard", stack |-> REACT_FASTAPI,
     needs_auth |-> FALSE, needs_database |-> TRUE]

\* C27: the Specification built from an ANALYZE output has the output's stack
\* value, auth strategy "jwt" when needs_auth is true and "none" otherwise;
\* for the scenario output it has stack react-fastapi and auth strategy "none"
C27_SpecFromAnalysis ==
    pc = "s_out" =>
        /\ "stack" \in DOMAIN analysis => spec.stack = analysis.stack
        /\ spec.auth_strategy =
              (IF "needs_auth" \in DOMAIN analysis /\ analysis.needs_auth = TRUE
               THEN "jwt" ELSE "none")
        /\ analysis = ScenarioAnalysis
              => spec.stack = REACT_FASTAPI /\ spec.auth_strategy = "none"

C27_Witness ==
    /\ pc = "s_out"
    /\ analysis = ScenarioAnalysis
    /\ spec.stack = REACT_FASTAPI
    /\ spec.auth_strategy = "none"

\* restore_version of thread t has returned the project
Restored(t) ==
    /\ requests[t].op = "restore"
    /\ requests[t].pc = "returned"
    /\ requests[t].ret # None
StoredVersions == {studio_db.versions[i] : i \in 1..Len(studio_db.versions)}

\* C28: when restore_version(project, n) returns for an existing version n,
\* with no other request writing the project's files meanwhile, the project's
\* files are those of version n and a stored version holds exactly the files
\* the project had when the restore was called
C28_RestoreKeepsPrior ==
    \A t \in Threads :
        (Restored(t) /\ requests[t].clean) =>
            /\ \E v \in StoredVersions :
                  /\ v.version_number = requests[t].n
                  /\ json_loads(v.files) = requests[t].ret.files
            /\ \E v \in StoredVersions : json_loads(v.files) = requests[t].before

\* a restore that changed the files
C28_Witness ==
    \E t \in Threads :
        /\ Restored(t) /\ requests[t].clean
        /\ requests[t].before # requests[t].ret.files
        /\ studio_db.files = requests[t].row
        /\ Len(studio_db.versions) >= 2

ProviderOf(model) ==
    IF model \in {CLAUDE_SONNET, CLAUDE_HAIKU} THEN "anthropic" ELSE "gemini"
Credentialed ==
    (IF gemini_key THEN {"gemini"} ELSE {}) \cup (IF anthropic_key THEN {"anthropic"} ELSE {})
GenerateCalls == CallsOf(GENERATE)

\* C29: the GENERATE candidate list is the router's primary model followed by
\* one model for each other provider that has a credential, without
\* duplicates; the attempts made are the candidates in list order, each once,
\* every attempt but the last was rejected (empty or flagged), and there are
\* never more attempts than candidates
C29_CandidateOrder ==
    (GeneratePath /\ models_to_try # <<>>) =>
        /\ models_to_try[1] = select_model(GENERATE, gemini_key, anthropic_key)
        /\ Distinct(models_to_try)
        /\ {ProviderOf(models_to_try[i]) : i \in 2..Len(models_to_try)}
              = Credentialed \ {ProviderOf(models_to_try[1])}
        /\ Len(models_to_try) - 1
              = Cardinality(Credentialed \ {ProviderOf(models_to_try[1])})
        /\ Len(GenerateCalls) <= Len(models_to_try)
        /\ \A i \in 1..Len(GenerateCalls) : GenerateCalls[i].model = models_to_try[i]
        /\ \A i \in 1..(Len(GenerateCalls) - 1) :
              Rejected(GenerateCalls[i].recitation, GenerateCalls[i].content)

\* the fallback was attempted after the primary, and nothing after it
C29_Witness ==
    /\ Returned /\ GeneratePath
    /\ models_to_try = <<CLAUDE_SONNET, GEMINI_FLASH>>
    /\ Len(GenerateCalls) = 2
    /\ Strip(GenerateCalls[1].content) = <<>>
    /\ project.files # <<>>

\* number of lines of content that consist solely of "..."
EllipsisOnlyLines(content) ==
    Cardinality({i \in 1..Len(content) :
                    /\ content[i] = DOTS
                    /\ i = 1 \/ content[i - 1] = NL
                    /\ i = Len(content) \/ content[i + 1] = NL})
Suspected(path) == HasError(errors, <<"Suspected placeholder '...' in", path>>)
\* the validated set has a file at path, of one of the languages, with more
\* than two ellipsis-only lines
RepeatedEllipsis(path, languages) ==
    \E i \in 1..Len(project.files) :
        /\ project.files[i].path = path
        /\ _infer_language(path) \in languages
        /\ EllipsisOnlyLines(project.files[i].content) > 2

\* C30 as stated: the suspected-placeholder error for more than two
\* ellipsis-only lines is reported for ts and tsx files and never for a
\* Python file.
C30_Original ==
    pc = "v_out" =>
        \A i \in 1..Len(project.files) :
            Suspected(project.files[i].path)
                <=> RepeatedEllipsis(project.files[i].path, {"ts", "tsx"})

\* C30 amended: the suspected-placeholder error is reported for a file exactly
\* when its language is ts, tsx or py and it has more than two ellipsis-only
\* lines; files of any other language are not checked.
C30_EllipsisCheck ==
    pc = "v_out" =>
        \A i \in 1..Len(project.files) :
            Suspected(project.files[i].path)
                <=> RepeatedEllipsis(project.files[i].path, {"ts", "tsx", "py"})

\* a Python file with three ellipsis-only lines is reported
C30_Witness ==
    /\ pc = "v_out"
    /\ RepeatedEllipsis(<<MAIN_PY>>, {"py"})
    /\ Suspected(<<MAIN_PY>>)
    /\ \E i \in 1..Len(project.files) :
          /\ project.files[i].path = <<README>>
          /\ EllipsisOnlyLines(project.files[i].content) > 2
    /\ ~Suspected(<<README>>)

HasTodo(content) == \E i \in 1..Len(content) : content[i] \in {TODO_JS, TODO_PY}
NearlyEmpty(content) == CharLen(Strip(content)) < 10
FrontendMissing ==
    spec.stack \in {REACT_FASTAPI, REACT_ONLY} /\ ~get_file(project, <<APP_TSX>>)
BackendMissing ==
    spec.stack \in {REACT_FASTAPI, FASTAPI_ONLY} /\ ~get_file(project, <<MAIN_PY>>)
FileIndices(P(_)) == {i \in 1..Len(project.files) : P(project.files[i])}
\* number of checks of the validator that fail on the validated set
FailingChecks ==
    (IF project.files = <<>> THEN 1 ELSE 0)
    + (IF FrontendMissing THEN 1 ELSE 0)
    + (IF BackendMissing THEN 1 ELSE 0)
    + Cardinality(FileIndices(LAMBDA f : HasTodo(f.content)))
    + Cardinality(FileIndices(LAMBDA f :
          _infer_language(f.path) \in {"ts", "tsx", "py"} /\ EllipsisOnlyLines(f.content) > 2))
    + Cardinality(FileIndices(LAMBDA f : NearlyEmpty(f.content)))

\* C31: the validator evaluates every check whatever failed before and
\* reports one error per failing check: the error list is as long as the
\* number of failing checks, an empty set reports the no-files error together
\* with the missing entry points of the stack, and a file with a TODO marker
\* and a nearly empty body has both of its errors
C31_EveryCheck ==
    pc = "v_out" =>
        /\ Len(errors) = FailingChecks
        /\ project.files = <<>> => HasError(errors, NoFilesError)
        /\ FrontendMissing => HasError(errors, <<"Missing frontend entry point:", <<APP_TSX>> >>)
        /\ BackendMissing => HasError(errors, <<"Missing backend entry point:", <<MAIN_PY>> >>)
        /\ \A i \in 1..Len(project.files) :
              LET f == project.files[i] IN
              /\ HasTodo(f.content) => HasError(errors, <<"Placeholder found in", f.path>>)
              /\ NearlyEmpty(f.content) => HasError(errors, <<"Nearly empty file:", f.path>>)

\* the empty set under react-fastapi: three errors
C31_Witness ==
    /\ pc = "v_out" /\ spec.stack = REACT_FASTAPI
    /\ project.files = <<>>
    /\ errors = <<NoFilesError, <<"Missing frontend entry point:", <<APP_TSX>> >>,
                  <<"Missing backend entry point:", <<MAIN_PY>> >> >>

\* the files of the new set whose path the output did not declare are the
\* artifacts of the given set, in place
UnchangedShared ==
    \A i \in 1..Len(project.files) :
        project.files[i].path \notin ChangedPaths(IterateChanged)
            => \E j \in 1..Len(existing.files) : existing.files[j] = project.files[i]

RECURSIVE Repeat(_, _)
Repeat(entries, k) == IF k = 0 THEN <<>> ELSE entries \o Repeat(entries, k - 1)
\* a provider output with one file and no manifest block
NoManifestText == <<FILE_MARK, APP_TSX, NL, CODE, NL>>

\* C33: after k successive iterations whose output declares the same
\* dependencies, each collection of the project is the collection the first
\* iteration was given followed by k copies of the declared entries, nothing
\* de-duplicated; an output without a manifest parses to two empty
\* collections and leaves both collections unchanged
C33_DepsConcatenated ==
    /\ parse_deps_from_response(NoManifestText) = [frontend |-> <<>>, backend |-> <<>>]
    /\ pc = "m_out" =>
          LET k == Len(calls)
              first == calls[1].existing
          IN  /\ project.frontend_deps
                    = first.frontend_deps \o Repeat(response.new_deps.frontend, k)
              /\ project.backend_deps
                    = first.backend_deps \o Repeat(response.new_deps.backend, k)
              /\ response.new_deps = parse_deps_from_response(NoManifestText)
                    => /\ project.frontend_deps = existing.frontend_deps
                       /\ project.backend_deps = existing.backend_deps

\* two iterations that each declare react: three entries for it
C33_Witness ==
    /\ pc = "m_out" /\ Len(calls) = 2
    /\ calls[1].existing.frontend_deps = <<DEP_REACT>>
    /\ response.new_deps.frontend = <<DEP_REACT>>
    /\ project.frontend_deps = <<DEP_REACT, DEP_REACT, DEP_REACT>>

DoneIndices == {i \in 1..Len(events) : events[i].event = "done"}
PhasesAnnounced == [i \in 1..Len(PhaseEvents) |-> PhaseEvents[i].phase]

\* C34: a stream_run that has run to completion has yielded exactly one done
\* event, as the last event of the sequence, and its phase events name
\* ANALYZE, SPEC, PLAN, GENERATE, VALIDATE in this order (ITERATE alone with
\* an existing project); before completion no done event has been yielded
C34_DoneLast ==
    mode = "stream_run" =>
        /\ ~Returned => DoneIndices = {}
        /\ Returned =>
              /\ DoneIndices = {Len(events)}
              /\ PhasesAnnounced =
                    (IF GeneratePath
                     THEN <<ANALYZE, ANALYZE, SPEC, PLAN, PLAN, GENERATE, GENERATE, VALIDATE>>
                     ELSE <<ITERATE, ITERATE>>)

C34_Witness ==
    /\ mode = "stream_run" /\ Returned /\ GeneratePath /\ spec_given
    /\ Len(FileEvents) = 2
    /\ events[Len(events)].event = "done"
    /\ events[Len(events) - 1].phase = VALIDATE

\* event i concludes a phase
Concluding(i) ==
    events[i].event = "phase" /\ events[i].status \in {"completed", "failed"}

\* a started event of the phase of event i was yielded before it
StartedBefore(i) ==
    \E j \in 1..(i - 1) : /\ events[j].event = "phase"
                          /\ events[j].phase = events[i].phase
                          /\ events[j].status = "started"

\* the phases started but not concluded among the first k events
OpenPhases(k) ==
    {p \in Phases :
        \E j \in 1..k : /\ events[j].event = "phase"
                        /\ events[j].phase = p
                        /\ events[j].status = "started"
                        /\ ~\E i \in (j + 1)..k : Concluding(i) /\ events[i].phase = p}

OneOpenPhase == \A k \in 0..Len(events) : Cardinality(OpenPhases(k)) <= 1

\* the phases stream_run brackets with a started event
BracketedPhases == {ANALYZE, PLAN, GENERATE, ITERATE}

\* C35 (as stated): in stream_run every phase event with status completed or
\* failed is preceded by a started event for the same phase, and at most one
\* phase is started but not yet concluded at any point of the sequence
C35_StartedFirst ==
    mode = "stream_run" =>
        /\ \A i \in 1..Len(events) : Concluding(i) => StartedBefore(i)
        /\ OneOpenPhase

\* C35 (amended): the completed event of ANALYZE, PLAN, GENERATE and ITERATE
\* is preceded by a started event of that phase; SPEC and VALIDATE yield
\* their concluding event alone, with no started event before it; and at most
\* one phase is started but not yet concluded at any point of the sequence
C35_BracketedPhases ==
    mode = "stream_run" =>
        /\ \A i \in 1..Len(events) :
              Concluding(i) =>
                  (StartedBefore(i) <=> events[i].phase \in BracketedPhases)
        /\ OneOpenPhase

\* a complete generation: GENERATE started and completed, then VALIDATE
\* failed with no started event of its own
C35_Witness ==
    /\ mode = "stream_run" /\ Returned /\ GeneratePath
    /\ \E i \in 1..Len(events) :
          /\ Concluding(i) /\ events[i].phase = GENERATE /\ StartedBefore(i)
    /\ \E i \in 1..Len(events) :
          /\ Concluding(i) /\ events[i].phase = VALIDATE
          /\ events[i].status = "failed" /\ ~StartedBefore(i)


\* C36: whenever at least one provider credential is present, the model
\* select_model returns for any phase, and every model of the GENERATE
\* candidate list, belongs to a provider that has a credential
C36_CredentialedModels ==
    (gemini_key \/ anthropic_key) =>
        /\ \A i \in 1..Len(calls) :
              /\ calls[i].model = select_model(calls[i].phase, gemini_key, anthropic_key)
              /\ ProviderOf(calls[i].model) \in Credentialed
        /\ \A i \in 1..Len(models_to_try) :
              ProviderOf(models_to_try[i]) \in Credentialed

\* only the Anthropic key: a phase without preferences and the candidate
\* list both answer with a Claude model
C36_Witness ==
    /\ anthropic_key /\ ~gemini_key
    /\ \E i \in 1..Len(calls) : calls[i] = [phase |-> VALIDATE, model |-> CLAUDE_SONNET]
    /\ \E i \in 1..Len(calls) : calls[i].phase = ANALYZE
    /\ models_to_try = <<CLAUDE_SONNET>>


\* what run() makes of the provider answers logged in `calls`: the artifact
\* set of _iterate / _generate (lines 527-546, 394-405) ...
LastCall == calls[Len(calls)]

RunArtifacts ==
    IF existing # NoProject
        THEN Merge(existing, parse_files_from_response(LastCall.content),
                   parse_deps_from_response(LastCall.content))
        ELSE NewProject(parse_files_from_response(LastCall.content),
                        parse_deps_from_response(LastCall.content))

\* ... and the ledger: response.model for ANALYZE, PLAN and ITERATE (lines
\* 243, 317, 558), the requested model_id for GENERATE (lines 384, 417)
RunRecordOf(c) ==
    PhaseResult(c.phase, TRUE, c.tokens,
                IF c.phase = GENERATE THEN c.model
                ELSE ServedModel(c.model, gemini_key, claude_available))

RunLedger ==
    IF existing # NoProject THEN <<RunRecordOf(LastCall)>>
    ELSE <<RunRecordOf(calls[1])>>
         \o (IF spec_given THEN <<>> ELSE <<PhaseResult(SPEC, TRUE, 0, "")>>)
         \o <<RunRecordOf(calls[2]), RunRecordOf(LastCall),
              PhaseResult(VALIDATE, ValidationErrors(RunArtifacts, spec.stack) = <<>>, 0, "")>>

\* no attempt was flagged blocked while carrying text
NoFlaggedText ==
    \A i \in 1..Len(calls) : calls[i].recitation => Strip(calls[i].content) = <<>>

\* run() ends with RunArtifacts and RunLedger
RunOutcome ==
    (mode = "run" /\ Returned) => project = RunArtifacts /\ phases = RunLedger

\* C37: for the same request, supplied spec, credentials and provider outputs
\* (no attempt flagged blocked while carrying text), stream_run ends with the
\* artifact set and the ledger run ends with: the same phase sequence with the
\* same model and tokens_used in each record
C37_StreamAsRun ==
    (mode = "stream_run" /\ Returned /\ NoFlaggedText) =>
        project = RunArtifacts /\ phases = RunLedger

\* the same, where no Claude model is served by Gemini
StreamAsRun_Unrouted ==
    (mode = "stream_run" /\ Returned /\ NoFlaggedText
        /\ (claude_available \/ ~gemini_key)) =>
        project = RunArtifacts /\ phases = RunLedger

\* the same, but for the model of the GENERATE record
StreamAsRun_ButModel ==
    (mode = "stream_run" /\ Returned /\ NoFlaggedText) =>
        /\ project = RunArtifacts
        /\ Len(phases) = Len(RunLedger)
        /\ \A i \in 1..Len(phases) :
              /\ phases[i].phase = RunLedger[i].phase
              /\ phases[i].tokens_used = RunLedger[i].tokens_used
              /\ phases[i].success = RunLedger[i].success
              /\ phases[i].phase # GENERATE => phases[i].model = RunLedger[i].model


\* C38: on the ITERATE path nothing is validated: run() with an existing
\* project returns success = true with an empty error list and a ledger of
\* the single ITERATE record, whatever the provider answered, also when no
\* file changed and when the merged project fails the structural checks
C38_IterateUnvalidated ==
    (mode = "run" /\ Iterated /\ Returned) =>
        /\ result.success = TRUE
        /\ result.errors = <<>>
        /\ errors = <<>>
        /\ PhaseSeq(result.phases) = <<ITERATE>>
        /\ LedgerOf(VALIDATE) = <<>>

\* an empty answer on a project that has no backend entry point
C38_Witness ==
    /\ mode = "run" /\ Iterated /\ Returned
    /\ Strip(CallsOf(ITERATE)[1].content) = <<>>
    /\ IterateChanged = <<>>
    /\ ~EntryPointsPresent(result.project.files, REACT_FASTAPI)
    /\ ValidationErrors(result.project, REACT_FASTAPI) # <<>>
    /\ result.success


VersionNumbers == {studio_db.versions[i].version_number : i \in 1..Len(studio_db.versions)}

\* C39: the version_number values of the saved versions of a stored project
\* are pairwise distinct and current_version is the highest of them (0 when
\* there is none), after any save_version and restore_version calls, also
\* when the reads and writes of concurrent requests interleave
C39_DistinctVersions ==
    /\ \A i, j \in 1..Len(studio_db.versions) :
          i # j => studio_db.versions[i].version_number
                      # studio_db.versions[j].version_number
    /\ studio_db.current_version \in VersionNumbers \cup {0}
    /\ \A n \in VersionNumbers : n <= studio_db.current_version
    /\ VersionNumbers = {} => studio_db.current_version = 0


\* the handler has exited
HandlerExited == vox_live_ws.pc = "closed"

\* C40: when the handler of a VOX live connection has exited, through an end
\* message, a client disconnect or an error, every VoxLiveSession that was
\* connected during the connection is disconnected: connected is false and
\* its receive task is no longer running, also when start was sent several times
C40_AllDisconnected ==
    HandlerExited =>
        \A i \in 1..Len(vox_live_ws.sessions) :
            vox_live_ws.sessions[i].was_connected =>
                /\ ~vox_live_ws.sessions[i].connected
                /\ vox_live_ws.sessions[i].receive_task # "running"

\* the same for the session bound to `session` when the handler exits
LastSessionDisconnected ==
    (HandlerExited /\ vox_live_ws.session # 0) =>
        /\ ~vox_live_ws.sessions[vox_live_ws.session].connected
        /\ vox_live_ws.sessions[vox_live_ws.session].receive_task # "running"


====
